---- MODULE Spec2Model ----
(***************************************************************************)
(* A model of the lp4fun DLMM position viewer: the weighted-average price  *)
(* accumulators, the request de-duplicating cache wrapper, and the two     *)
(* generations of getPositionsInfo (decoded on-chain events, and Meteora   *)
(* indexer records).                                                       *)
(*                                                                         *)
(* Decimal values (decimal.js) are modelled as exact extended rationals    *)
(* [n, d]: d > 0 is the finite value n/d in lowest terms, d = 0 is a       *)
(* non-finite value (n = 1 Infinity, n = -1 -Infinity, n = 0 NaN), which   *)
(* decimal.js produces on a division by zero instead of throwing.  The     *)
(* 20-significant-digit rounding of decimal.js is not modelled.            *)
(***************************************************************************)
EXTENDS Integers, Sequences, FiniteSets, TLC

VARIABLES
    \* weighted-average accumulators
    wEvents,          \* the events fed to the accumulators so far
    acc,              \* running BalanceInfo of updateBalanceWithEvent (liquidity.ts generation)
    tl,               \* running TotalLiquidity of updateTotalLiquidity (solana.ts generation)
    \* createCachedRequestWrapper around a price lookup
    now,              \* Date.now(), in milliseconds
    localStorage,     \* cache key -> cached {data, timestamp}, or NoEntry
    pendingRequests,  \* pending key -> the in-flight fetchPromise (a request id), 0 when absent
    requests,         \* the invocations of the wrapped function: key, state, outcome
    calls,            \* the invocations of the wrapper and what each caller observed
    \* getPositionsInfo over decoded on-chain events, for one position key
    oEnum,            \* which definition of the EventType enum the build has
    oNames,           \* how the event decoder spells event names
    oTxs,             \* number of transactions of the position processed so far
    oEvents,          \* sessionEvents[positionPubKey]
    oEnv,             \* what the external services answered to processPosition
    oData,            \* positionsData: <<>> or <<the position's PositionLiquidityData>>
    oPc,              \* "fetching" the session events, "fetched", "processed", then
                      \* "resolved" or "rejected"
    oSeen,            \* number of events of the five kinds decoded from the successful
                      \* transactions processed so far
    oLive,            \* whether processPosition called getOpenPositionLiveData
    oView,            \* <<>> or <<what PositionStatus renders for the resolved data>>
    \* getPositionsInfo over Meteora indexer records, for a batch of positions
    mPc,              \* position -> the await its processPosition stands at
    mFailed,          \* position -> the fetches that failed for it
    mOps,             \* position -> what fetchPositionOperations returned
    mData,            \* positionsData: emitted position -> PositionLiquidityData
    mBatch,           \* state of the promise getPositionsInfo returned
    \* the resolution-selection policy and index lookup of birdeye.ts
    bFrom,            \* fromBlockTime / fromTime of the span
    bTo,              \* toBlockTime of the span
    bInterval,        \* what determineOptimalTimeInterval returned, "" before the call
    bCall,            \* <<>> or <<the call of determineIntervalIndex made and its result>>
    bPc,              \* "start", "optimal" once the interval is selected, "done"
    \* the retry loop of a price lookup of jup.ts
    rFn,              \* "_fetchTokenPrice" or "_fetchTokenUsdPrice", "" when not called
    rMax,             \* maxRetries
    rDelay0,          \* initialDelay, in milliseconds
    rRetries,         \* the loop counter retries
    rLog,             \* what the call did so far: its fetches and its delays
    rResult,           \* <<>> while the call runs, then <<what it settled with>>
    \* RateLimiter of rateLimitedFetch.ts
    lNow,             \* Date.now(), in milliseconds
    lQueue,           \* queue: the resolve functions, each named by its call of limit
    lIsProcessing,    \* isProcessing
    lLastCallTime,    \* lastCallTime
    lLoops,           \* the invocations of processQueue that stand at await delay:
                      \* the time at which the timer of each fires
    lCalls,           \* number of calls of limit made so far
    lResolved,         \* the calls of limit whose promise is resolved, in order
    \* the PositionStatus component
    pIsLoading,       \* isLoading
    pError,           \* error, "" for null
    pPositionsData,   \* the keys of positionsData
    pInFlight,        \* the calls of getPositionsInfo that have not settled
    pFetches          \* number of calls of fetchTransactions so far

varsW == <<wEvents, acc, tl>>
varsC == <<now, localStorage, pendingRequests, requests, calls>>
varsO == <<oEnum, oNames, oTxs, oEvents, oEnv, oData, oPc, oSeen, oLive, oView>>
varsM == <<mPc, mFailed, mOps, mData, mBatch>>
varsB == <<bFrom, bTo, bInterval, bCall, bPc>>
varsR == <<rFn, rMax, rDelay0, rRetries, rLog, rResult>>
varsL == <<lNow, lQueue, lIsProcessing, lLastCallTime, lLoops, lCalls, lResolved>>
varsP == <<pIsLoading, pError, pPositionsData, pInFlight, pFetches>>
vars == <<wEvents, acc, tl, now, localStorage, pendingRequests, requests, calls,
          oEnum, oNames, oTxs, oEvents, oEnv, oData, oPc, oSeen, oLive, oView,
          mPc, mFailed, mOps, mData, mBatch,
          bFrom, bTo, bInterval, bCall, bPc,
          rFn, rMax, rDelay0, rRetries, rLog, rResult,
          lNow, lQueue, lIsProcessing, lLastCallTime, lLoops, lCalls, lResolved,
          pIsLoading, pError, pPositionsData, pInFlight, pFetches>>

(***************************************************************************)
(* Bounds of the model.                                                    *)
(***************************************************************************)
MaxEvents == 3
MaxCalls == 3

(***************************************************************************)
(* decimal.js arithmetic.                                                  *)
(***************************************************************************)
Abs(i) == IF i < 0 THEN -i ELSE i

Sgn(i) == IF i < 0 THEN -1 ELSE IF i > 0 THEN 1 ELSE 0

RECURSIVE Gcd(_, _)
Gcd(a, b) == IF b = 0 THEN a ELSE Gcd(b, a % b)

\* n/d brought to lowest terms with a positive denominator; x/0 is
\* +-Infinity and 0/0 is NaN.
Norm(n, d) ==
    IF d = 0 THEN [n |-> Sgn(n), d |-> 0]
    ELSE LET g == Gcd(Abs(n), Abs(d))
         IN  [n |-> (Sgn(d) * n) \div g, d |-> Abs(d) \div g]

Dec(i) == [n |-> i, d |-> 1]

DIsFinite(a) == a.d # 0

DIsNaN(a) == a.d = 0 /\ a.n = 0

DIsZero(a) == a.d # 0 /\ a.n = 0

DAdd(a, b) ==
    IF a.d = 0 /\ b.d = 0
    THEN (IF a.n = b.n THEN a ELSE [n |-> 0, d |-> 0])
    ELSE Norm(a.n * b.d + b.n * a.d, a.d * b.d)

DNeg(a) == [n |-> -a.n, d |-> a.d]

DSub(a, b) == DAdd(a, DNeg(b))

DMul(a, b) == Norm(a.n * b.n, a.d * b.d)

\* 1/b: 1/0 is Infinity, 1/Infinity is 0, 1/NaN is NaN.
DRecip(b) ==
    IF b.d = 0 THEN (IF b.n = 0 THEN b ELSE [n |-> 0, d |-> 1])
    ELSE IF b.n = 0 THEN [n |-> 1, d |-> 0]
    ELSE [n |-> Sgn(b.n) * b.d, d |-> Abs(b.n)]

DDiv(a, b) == DMul(a, DRecip(b))

\* a < b for finite a and b.
DLess(a, b) == a.n * b.d < b.n * a.d

DLeq(a, b) == a.n * b.d <= b.n * a.d

(***************************************************************************)
(* The running weighted average (liquidity.ts generation).                 *)
(***************************************************************************)
calculateWeightedPriceNoWeights(currentPrice, currentValue, newPrice, addedValue) ==
    IF DIsZero(addedValue) THEN currentPrice ELSE newPrice

calculateWeightedPrice(currentPrice, currentValue, newPrice, addedValue) ==
    IF DIsZero(addedValue) THEN currentPrice
    ELSE LET totalValue == DAdd(currentValue, addedValue)
             currentWeight == DDiv(currentValue, totalValue)
             newWeight == DDiv(addedValue, totalValue)
         IN  DAdd(DMul(currentPrice, currentWeight), DMul(newPrice, newWeight))

\* BalanceInfo.zero() of the accumulator generation of the types.
AccZero ==
    [tokenXBalance |-> Dec(0), tokenYBalance |-> Dec(0),
     exchangeRate |-> Dec(0), totalValueInTokenY |-> Dec(0)]

updateBalanceWithEventAccLastValue(balance, event, price) ==
    LET tokenXChange == event.tokenXChange
        tokenYChange == event.tokenYChange
        valueChange == DAdd(DMul(price, tokenXChange), tokenYChange)
    IN  [tokenXBalance |-> DAdd(balance.tokenXBalance, tokenXChange),
         tokenYBalance |-> DAdd(balance.tokenYBalance, tokenYChange),
         exchangeRate |-> calculateWeightedPrice(balance.exchangeRate,
                              balance.totalValueInTokenY, price, valueChange),
         totalValueInTokenY |-> valueChange]

updateBalanceWithEventAcc(balance, event, price) ==
    LET tokenXChange == event.tokenXChange
        tokenYChange == event.tokenYChange
        valueChange == DAdd(DMul(price, tokenXChange), tokenYChange)
    IN  [tokenXBalance |-> DAdd(balance.tokenXBalance, tokenXChange),
         tokenYBalance |-> DAdd(balance.tokenYBalance, tokenYChange),
         exchangeRate |-> calculateWeightedPrice(balance.exchangeRate,
                              balance.totalValueInTokenY, price, valueChange),
         totalValueInTokenY |-> DAdd(balance.totalValueInTokenY, valueChange)]

(***************************************************************************)
(* The running weighted average (solana.ts generation): no zero guard.     *)
(***************************************************************************)
updateWeightedPrice(currentPrice, currentTotalValue, newPrice, newValue) ==
    LET totalValue == DAdd(currentTotalValue, newValue)
    IN  DAdd(DMul(currentPrice, DDiv(currentTotalValue, totalValue)),
             DMul(newPrice, DDiv(newValue, totalValue)))

TotalLiquidityZero ==
    [tokenX |-> Dec(0), tokenY |-> Dec(0), price |-> Dec(0), totalValue |-> Dec(0)]

updateTotalLiquidity(total, tokenXChange, tokenYChange, price, value) ==
    [tokenX |-> DAdd(total.tokenX, tokenXChange),
     tokenY |-> DAdd(total.tokenY, tokenYChange),
     price |-> updateWeightedPrice(total.price, total.totalValue, price, value),
     totalValue |-> DAdd(total.totalValue, value)]

(***************************************************************************)
(* BalanceInfo snapshots and PositionBalanceInfo buckets (types/index.ts). *)
(***************************************************************************)
BalanceInfo(tokenXBalance, tokenYBalance, exchangeRate, blockTime) ==
    [tokenXBalance |-> tokenXBalance,
     tokenYBalance |-> tokenYBalance,
     exchangeRate |-> exchangeRate,
     blockTime |-> blockTime,
     totalValueInTokenY |-> DAdd(DMul(exchangeRate, tokenXBalance), tokenYBalance),
     totalValueInTokenX |->
         IF DIsZero(exchangeRate) THEN Dec(0)
         ELSE DAdd(DDiv(tokenYBalance, exchangeRate), tokenXBalance),
     tokenYSOLPrice |-> Dec(0)]

BalanceInfoZero == BalanceInfo(Dec(0), Dec(0), Dec(0), 0)

PositionBalanceInfo(balances, tokenXMint, tokenYMint) ==
    [balances |-> balances, tokenXMint |-> tokenXMint, tokenYMint |-> tokenYMint]

\* PositionBalanceInfo.add
BucketAdd(bucket, balance) ==
    [bucket EXCEPT !.balances = Append(@, balance)]

RECURSIVE SumTokenX(_)
SumTokenX(balances) ==
    IF balances = <<>> THEN Dec(0)
    ELSE DAdd(SumTokenX(SubSeq(balances, 1, Len(balances) - 1)),
              balances[Len(balances)].tokenXBalance)

RECURSIVE SumTokenY(_)
SumTokenY(balances) ==
    IF balances = <<>> THEN Dec(0)
    ELSE DAdd(SumTokenY(SubSeq(balances, 1, Len(balances) - 1)),
              balances[Len(balances)].tokenYBalance)

RECURSIVE SumValueInTokenY(_)
SumValueInTokenY(balances) ==
    IF balances = <<>> THEN Dec(0)
    ELSE DAdd(SumValueInTokenY(SubSeq(balances, 1, Len(balances) - 1)),
              balances[Len(balances)].totalValueInTokenY)

RECURSIVE SumValueInTokenX(_)
SumValueInTokenX(balances) ==
    IF balances = <<>> THEN Dec(0)
    ELSE DAdd(SumValueInTokenX(SubSeq(balances, 1, Len(balances) - 1)),
              balances[Len(balances)].totalValueInTokenX)

RECURSIVE SumWeighted(_)
SumWeighted(balances) ==
    IF balances = <<>> THEN Dec(0)
    ELSE DAdd(SumWeighted(SubSeq(balances, 1, Len(balances) - 1)),
              DMul(balances[Len(balances)].exchangeRate,
                   balances[Len(balances)].totalValueInTokenY))

getTotalTokenXBalance(bucket) == SumTokenX(bucket.balances)

getTotalTokenYBalance(bucket) == SumTokenY(bucket.balances)

getTotalValueInTokenY(bucket) == SumValueInTokenY(bucket.balances)

getTotalValueInTokenX(bucket) == SumValueInTokenX(bucket.balances)

getWeightedExchangeRate(bucket) ==
    IF Len(bucket.balances) = 0 THEN Dec(0)
    ELSE LET totalValue == SumValueInTokenY(bucket.balances)
             weightedSum == SumWeighted(bucket.balances)
         IN  IF DIsZero(totalValue) THEN Dec(0) ELSE DDiv(weightedSum, totalValue)

(***************************************************************************)
(* The accumulators driven by one stream of events.  Each step feeds the   *)
(* same event (token changes and the price at its time) to both            *)
(* generations of the running average.                                     *)
(***************************************************************************)
WAmountsX == {0, 5, 10}

WAmountsY == {0, 10}

\* 2 and 4 are pool prices; -1 is the sentinel price of the oracle, which
\* calculateClaimedFees passes on as the price of a claim, and 0 is the
\* oracle's price of a token X whose USD price is 0.
WPrices == {-1, 0, 2, 4}

WEventValue(e) == DAdd(DMul(e.price, e.tokenXChange), e.tokenYChange)

\* the snapshots a PositionBalanceInfo bucket holds after the same events
RECURSIVE WBalances(_)
WBalances(events) ==
    IF events = <<>> THEN <<>>
    ELSE Append(WBalances(SubSeq(events, 1, Len(events) - 1)),
                BalanceInfo(events[Len(events)].tokenXChange,
                            events[Len(events)].tokenYChange,
                            events[Len(events)].price, Len(events)))

WBucket == PositionBalanceInfo(WBalances(wEvents), "X", "Y")

IdleW ==
    /\ wEvents = <<>>
    /\ acc = AccZero
    /\ tl = TotalLiquidityZero

IdleC ==
    /\ now = 0
    /\ localStorage = <<>>
    /\ pendingRequests = <<>>
    /\ requests = <<>>
    /\ calls = <<>>

IdleO ==
    /\ oEnum = "Pascal"
    /\ oNames = "Pascal"
    /\ oTxs = 0
    /\ oEvents = <<>>
    /\ oEnv = <<>>
    /\ oData = <<>>
    /\ oPc = "fetching"
    /\ oSeen = 0
    /\ oLive = FALSE
    /\ oView = <<>>

IdleM ==
    /\ mPc = <<>>
    /\ mFailed = <<>>
    /\ mOps = <<>>
    /\ mData = <<>>
    /\ mBatch = "running"

IdleB ==
    /\ bFrom = 0
    /\ bTo = 0
    /\ bInterval = ""
    /\ bCall = <<>>
    /\ bPc = "start"

IdleR ==
    /\ rFn = ""
    /\ rMax = 0
    /\ rDelay0 = 0
    /\ rRetries = 0
    /\ rLog = <<>>
    /\ rResult = <<>>

IdleL ==
    /\ lNow = 0
    /\ lQueue = <<>>
    /\ lIsProcessing = FALSE
    /\ lLastCallTime = 0
    /\ lLoops = <<>>
    /\ lCalls = 0
    /\ lResolved = <<>>

IdleP ==
    /\ pIsLoading = TRUE
    /\ pError = ""
    /\ pPositionsData = {}
    /\ pInFlight = 0
    /\ pFetches = 0

InitW == IdleW /\ IdleC /\ IdleO /\ IdleM /\ IdleB /\ IdleR /\ IdleL /\ IdleP

ProcessEvent(x, y, p) ==
    LET e == [tokenXChange |-> Dec(x), tokenYChange |-> Dec(y), price |-> Dec(p)]
    IN  /\ Len(wEvents) < MaxEvents
        /\ wEvents' = Append(wEvents, e)
        /\ acc' = updateBalanceWithEventAcc(acc, e, e.price)
        /\ tl' = updateTotalLiquidity(tl, e.tokenXChange, e.tokenYChange,
                                      e.price, WEventValue(e))
        /\ UNCHANGED <<varsC, varsO, varsM, varsB, varsR, varsL, varsP>>

NextW == \E x \in WAmountsX, y \in WAmountsY, p \in WPrices : ProcessEvent(x, y, p)

SpecW == InitW /\ [][NextW]_vars

\* the update of C6: (rate 2, value 10) and then (rate 4, value 10)
WIsExampleC6 ==
    /\ Len(wEvents) = 2
    /\ wEvents[1].price = Dec(2) /\ WEventValue(wEvents[1]) = Dec(10)
    /\ wEvents[2].price = Dec(4) /\ WEventValue(wEvents[2]) = Dec(10)

(* C6: starting from (avg 0, value 0), the update with (rate 2, value 10)   *)
(* and then with (rate 4, value 10) leaves the average at exactly 3 and the *)
(* accumulated value at exactly 20, in both generations of the update rule. *)
C6_WeightedAverageExample ==
    WIsExampleC6 =>
        /\ acc.exchangeRate = Dec(3)
        /\ acc.totalValueInTokenY = Dec(20)
        /\ tl.price = Dec(3)
        /\ tl.totalValue = Dec(20)

C6_Witness ==
    /\ WIsExampleC6
    /\ wEvents[1].tokenXChange = Dec(5)
    /\ acc.exchangeRate = Dec(3)

\* C16: every snapshot satisfies totalValueInTokenY = exchangeRate *
\* tokenXBalance + tokenYBalance, and totalValueInTokenX = tokenXBalance +
\* tokenYBalance / exchangeRate when the rate is not zero; when the rate is
\* zero nothing is divided and totalValueInTokenX equals tokenXBalance alone.
C16_SnapshotValueIdentities ==
    \A k \in 1..Len(WBucket.balances) :
        LET b == WBucket.balances[k]
        IN  /\ b.totalValueInTokenY = DAdd(DMul(b.exchangeRate, b.tokenXBalance), b.tokenYBalance)
            /\ ~DIsZero(b.exchangeRate) =>
                   b.totalValueInTokenX = DAdd(b.tokenXBalance, DDiv(b.tokenYBalance, b.exchangeRate))
            /\ DIsZero(b.exchangeRate) =>
                   DIsFinite(b.totalValueInTokenX) /\ b.totalValueInTokenX = b.tokenXBalance

\* every event applied so far has a value that is not negative
WNonNegative == \A k \in 1..Len(wEvents) : DLeq(Dec(0), WEventValue(wEvents[k]))

C7_ZeroAddedValueKeepsAverage ==
    [][(Len(wEvents') = Len(wEvents) + 1
            /\ DIsZero(WEventValue(wEvents'[Len(wEvents')])))
        => (acc'.exchangeRate = acc.exchangeRate /\ tl'.price = tl.price)]_vars

(* C8: the weighted average never divides by a zero accumulated value: the  *)
(* running exchange rate stays a finite number after every sequence of      *)
(* events, and getWeightedExchangeRate is 0 on an empty bucket or a bucket  *)
(* whose summed value is zero.                                              *)
C8_NeverDividesByZero ==
    /\ DIsFinite(acc.exchangeRate)
    /\ DIsFinite(getWeightedExchangeRate(WBucket))
    /\ (Len(wEvents) = 0 \/ DIsZero(getTotalValueInTokenY(WBucket)))
           => getWeightedExchangeRate(WBucket) = Dec(0)

(***************************************************************************)
(* createCachedRequestWrapper (cachingUtils.ts) around _fetchTokenPrice    *)
(* (jup.ts).  A request is one invocation of the wrapped function; a call  *)
(* is one invocation of the wrapper.  The code runs on one event loop: the *)
(* wrapper's synchronous part is one step, the wrapped function settles in *)
(* a later step, the continuation of the fetchPromise (save, finally) and  *)
(* the delivery to each caller are later microtasks.                       *)
(***************************************************************************)
PRICE_CACHE_EXPIRY_MS == 60000

\* the argument lists the callers use, one per token pair
Keys == {"SOL_USDC", "JUP_USDC"}

NoEntry == [data |-> 0, timestamp |-> -1]

\* what the wrapped function can answer: a price, the sentinel of an
\* exhausted retry loop, or (for a wrapped function that throws) an error
FnOutcomes ==
    {[kind |-> "ok", val |-> 7], [kind |-> "ok", val |-> -1], [kind |-> "err", val |-> 0]}

Pending == [kind |-> "pending", val |-> 0]

getCacheKey(k) == <<"token_price_", k>>

getPendingKey(k) == k

CacheKeys == {getCacheKey(k) : k \in Keys}

\* null when there is no entry or the entry is older than the expiry
getFromLocalStorage(cacheKey) ==
    LET cachedData == localStorage[cacheKey]
    IN  IF cachedData # NoEntry /\ now - cachedData.timestamp < PRICE_CACHE_EXPIRY_MS
        THEN cachedData
        ELSE NoEntry

saveToLocalStorage(cacheKey, result) ==
    [localStorage EXCEPT ![cacheKey] = [data |-> result, timestamp |-> now]]

HasPendingNever(pendingKey) == FALSE

\* pendingRequests.has(pendingKey)
HasPending(pendingKey) == pendingRequests[pendingKey] # 0

JoinedPromiseFirst(pendingKey) == 1

\* pendingRequests.get(pendingKey)
JoinedPromise(pendingKey) == pendingRequests[pendingKey]

\* the requests for key k whose wrapped function has not settled
UnsettledReqs(k) ==
    {r \in 1..Len(requests) : requests[r].key = k /\ requests[r].state = "inflight"}

Max(S) == CHOOSE m \in S : \A x \in S : x <= m

InitC ==
    /\ now = 0
    /\ localStorage = [ck \in CacheKeys |-> NoEntry]
    /\ pendingRequests = [pk \in {getPendingKey(k) : k \in Keys} |-> 0]
    /\ requests = <<>>
    /\ calls = <<>>
    /\ IdleW /\ IdleO /\ IdleM /\ IdleB /\ IdleR /\ IdleL /\ IdleP

\* one invocation of the wrapper with arguments of key k, up to its return
Call(k) ==
    LET cacheKey == getCacheKey(k)
        pendingKey == getPendingKey(k)
        cachedValue == getFromLocalStorage(cacheKey)
        inflight == IF UnsettledReqs(k) = {} THEN 0 ELSE Max(UnsettledReqs(k))
        call == [key |-> k, req |-> 0, created |-> FALSE, fromCache |-> FALSE,
                 inflightAtCall |-> inflight, outcome |-> Pending]
    IN  /\ Len(calls) < MaxCalls
        /\ IF cachedValue # NoEntry
           THEN /\ calls' = Append(calls, [call EXCEPT !.fromCache = TRUE,
                                                       !.outcome = [kind |-> "ok",
                                                                    val |-> cachedValue.data]])
                /\ UNCHANGED <<requests, pendingRequests>>
           ELSE IF HasPending(pendingKey)
           THEN /\ calls' = Append(calls, [call EXCEPT !.req = JoinedPromise(pendingKey)])
                /\ UNCHANGED <<requests, pendingRequests>>
           ELSE /\ requests' = Append(requests,
                                      [key |-> k, state |-> "inflight", outcome |-> Pending])
                /\ pendingRequests' = [pendingRequests EXCEPT ![pendingKey] = Len(requests) + 1]
                /\ calls' = Append(calls, [call EXCEPT !.req = Len(requests) + 1,
                                                       !.created = TRUE])
        /\ UNCHANGED <<now, localStorage, varsW, varsO, varsM, varsB, varsR, varsL, varsP>>

\* the wrapped function's promise settles
FnSettle(r, o) ==
    /\ r \in 1..Len(requests)
    /\ requests[r].state = "inflight"
    /\ requests' = [requests EXCEPT ![r].state = "settled", ![r].outcome = o]
    /\ UNCHANGED <<now, localStorage, pendingRequests, calls, varsW, varsO, varsM, varsB, varsR, varsL, varsP>>

ContinueWithoutFinally(r) ==
    /\ r \in 1..Len(requests)
    /\ requests[r].state = "settled"
    /\ requests' = [requests EXCEPT ![r].state = "finished"]
    /\ localStorage' =
           IF requests[r].outcome.kind = "ok"
           THEN saveToLocalStorage(getCacheKey(requests[r].key), requests[r].outcome.val)
           ELSE localStorage
    /\ pendingRequests' =
           IF requests[r].outcome.kind = "ok"
           THEN [pendingRequests EXCEPT ![getPendingKey(requests[r].key)] = 0]
           ELSE pendingRequests
    /\ UNCHANGED <<now, calls, varsW, varsO, varsM, varsB, varsR, varsL, varsP>>

\* the fetchPromise resumes after `await fn(...)`: it saves a result that is
\* neither null nor undefined, and its finally block deletes the pending entry
Continue(r) ==
    /\ r \in 1..Len(requests)
    /\ requests[r].state = "settled"
    /\ requests' = [requests EXCEPT ![r].state = "finished"]
    /\ localStorage' =
           IF requests[r].outcome.kind = "ok"
           THEN saveToLocalStorage(getCacheKey(requests[r].key), requests[r].outcome.val)
           ELSE localStorage
    /\ pendingRequests' = [pendingRequests EXCEPT ![getPendingKey(requests[r].key)] = 0]
    /\ UNCHANGED <<now, calls, varsW, varsO, varsM, varsB, varsR, varsL, varsP>>

\* the fetchPromise the wrapper returned to caller c settles it (a caller
\* served from the cache got its value at the return)
Deliver(c) ==
    /\ c \in 1..Len(calls)
    /\ calls[c].outcome = Pending
    /\ requests[calls[c].req].state = "finished"
    /\ calls' = [calls EXCEPT ![c].outcome = requests[calls[c].req].outcome]
    /\ UNCHANGED <<now, localStorage, pendingRequests, requests, varsW, varsO, varsM, varsB, varsR, varsL, varsP>>

\* the clock is followed until every entry written at time 0 has expired
Horizon == PRICE_CACHE_EXPIRY_MS

\* time passes: one expiry period of the price cache
Tick ==
    /\ now < Horizon
    /\ now' = now + PRICE_CACHE_EXPIRY_MS
    /\ UNCHANGED <<localStorage, pendingRequests, requests, calls, varsW, varsO, varsM, varsB, varsR, varsL, varsP>>

NextC ==
    \/ \E k \in Keys : Call(k)
    \/ \E r \in 1..MaxCalls, o \in FnOutcomes : FnSettle(r, o)
    \/ \E r \in 1..MaxCalls : Continue(r)
    \/ \E c \in 1..MaxCalls : Deliver(c)
    \/ Tick

SpecC == InitC /\ [][NextC]_vars

\* The event loop runs every queued continuation: a settled fetchPromise
\* resumes, and a settled wrapper promise reaches its caller.
FairSpecC ==
    /\ SpecC
    /\ WF_vars(\E r \in 1..MaxCalls : Continue(r))
    /\ WF_vars(\E c \in 1..MaxCalls : Deliver(c))

\* the request a caller joined: the one it started, or the one that was in
\* flight for its key when it called
Joined(c) == IF calls[c].created THEN calls[c].req ELSE calls[c].inflightAtCall

(* C1: a call issued, with no fresh cached value, while a request for the   *)
(* same pending key has not settled does not invoke the wrapped function:   *)
(* it gets that request's promise, so at most one request per key is in     *)
(* flight and the callers of one burst share one invocation.                *)
C1_SingleFlight ==
    /\ \A c \in 1..Len(calls) :
           (calls[c].inflightAtCall # 0 /\ ~calls[c].fromCache)
               => (~calls[c].created /\ calls[c].req = calls[c].inflightAtCall)
    /\ \A k \in Keys : Cardinality(UnsettledReqs(k)) <= 1

C1_Witness ==
    /\ Len(calls) = 3
    /\ Len(requests) = 1
    /\ requests[1].state = "inflight"
    /\ calls[1].created
    /\ \A c \in 2..3 : ~calls[c].created /\ calls[c].req = calls[1].req

C2Safe ==
    \A c \in 1..Len(calls) :
        (Joined(c) # 0 /\ calls[c].outcome # Pending)
            => calls[c].outcome = requests[Joined(c)].outcome

\* caller c joined a request whose wrapped function has settled
C2Settled(c) ==
    IF c <= Len(calls)
    THEN IF Joined(c) # 0 THEN requests[Joined(c)].state # "inflight" ELSE FALSE
    ELSE FALSE

C2Answered(c) == IF c <= Len(calls) THEN calls[c].outcome # Pending ELSE FALSE

(* C2: the callers that joined one in-flight request all observe that       *)
(* request's outcome, the same value or the same error, and once the        *)
(* request has settled every one of them is eventually answered.            *)
C2_JoinersShareOutcome ==
    /\ []C2Safe
    /\ \A c \in 1..MaxCalls : C2Settled(c) ~> C2Answered(c)

C2_Witness ==
    \E c1, c2 \in 1..Len(calls) :
        /\ c1 < c2
        /\ calls[c1].created
        /\ ~calls[c2].created
        /\ Joined(c2) = calls[c1].req
        /\ calls[c1].outcome = [kind |-> "err", val |-> 0]
        /\ calls[c2].outcome = [kind |-> "err", val |-> 0]

\* C23: only successful responses are written to the price cache: the
\* sentinel -1 of an exhausted retry loop is never stored under a cache key,
\* and no call is answered with a cached -1.
C23_SentinelNotCached ==
    /\ \A ck \in CacheKeys : localStorage[ck] # NoEntry => localStorage[ck].data # -1
    /\ \A c \in 1..Len(calls) : calls[c].fromCache => calls[c].outcome.val # -1

\* the entry of a pending key names a request for that key that has not
\* finished, and a request that has not settled has its entry
PendingOnlyInFlight ==
    /\ \A k \in Keys :
           LET r == pendingRequests[getPendingKey(k)]
           IN  r # 0 => requests[r].key = k /\ requests[r].state # "finished"
    /\ \A r \in 1..Len(requests) :
           requests[r].state = "inflight" => pendingRequests[getPendingKey(requests[r].key)] = r

\* the wrapped function of request r has settled, with a value or an error
FnSettled(r) == IF r <= Len(requests) THEN requests[r].state = "settled" ELSE FALSE

\* request r is through its finally block and the map has no entry for it
EntryRemoved(r) ==
    IF r <= Len(requests)
    THEN /\ requests[r].state = "finished"
         /\ pendingRequests[getPendingKey(requests[r].key)] # r
    ELSE FALSE

\* C28: the pending-request map holds an entry for a key only while a
\* request for that key is in flight; once the wrapped function settles,
\* with a value or with an error, the entry is removed, so a call never
\* receives the promise of a request that is through: it is served from the
\* cache or joins or starts a request that is not.
C28_PendingOnlyWhileInFlight ==
    /\ []PendingOnlyInFlight
    /\ \A r \in 1..MaxCalls : FnSettled(r) ~> EntryRemoved(r)
    /\ [][Len(calls') = Len(calls) + 1 =>
              LET call == calls'[Len(calls')]
              IN  call.fromCache \/ requests'[call.req].state # "finished"]_vars

\* a request failed, and the next call for its key started a new request
C28_Witness ==
    \E c1, c2 \in 1..Len(calls) :
        /\ c1 < c2
        /\ calls[c1].key = calls[c2].key
        /\ calls[c1].outcome = [kind |-> "err", val |-> 0]
        /\ calls[c2].created
        /\ calls[c2].req # calls[c1].req
        /\ pendingRequests[getPendingKey(calls[c2].key)] = calls[c2].req

(***************************************************************************)
(* getPositionsInfo over decoded on-chain events (dlmm.ts, first           *)
(* generation), for one position key.                                      *)
(***************************************************************************)
MaxTransactions == 3

BASIS_POINT_MAX == 10000

SECONDS_PER_MINUTE == 60

MAX_DATA_POINTS == 999

SOL_MINT == "So11111111111111111111111111111111111111112"

\* the keys of the EventType enum
EventTypeKeys ==
    {"AddLiquidity", "RemoveLiquidity", "ClaimFee", "PositionClose", "PositionCreate"}

CamelCase(name) ==
    CASE name = "AddLiquidity" -> "addLiquidity"
      [] name = "RemoveLiquidity" -> "removeLiquidity"
      [] name = "ClaimFee" -> "claimFee"
      [] name = "PositionClose" -> "positionClose"
      [] name = "PositionCreate" -> "positionCreate"
      [] OTHER -> "swap"

\* the enum's values: the repository holds two definitions of EventType
EventTypePascal(key) == key

EventTypeCamel(key) == CamelCase(key)

EventType(key) == IF oEnum = "Pascal" THEN EventTypePascal(key) ELSE EventTypeCamel(key)

\* program.coder.events.decode: the event's name as the IDL spells it
DecodedName(kind) == IF oNames = "Pascal" THEN kind ELSE CamelCase(kind)

Pow10(k) == IF k >= 0 THEN Dec(10 ^ k) ELSE Norm(1, 10 ^ (0 - k))

RECURSIVE DPow(_, _)
DPow(base, e) ==
    IF e = 0 THEN Dec(1)
    ELSE IF e > 0 THEN DMul(base, DPow(base, e - 1))
    ELSE DDiv(DPow(base, e + 1), base)

getPriceFromBinId(binId, binStep, tokenXDecimal, tokenYDecimal) ==
    LET binStepNum == DDiv(Dec(binStep), Dec(BASIS_POINT_MAX))
        base == DAdd(Dec(1), binStepNum)
    IN  DMul(DPow(base, binId), Pow10(tokenXDecimal - tokenYDecimal))

\* raw integer units scaled to decimal units
formatDecimalTokenBalance(balance, decimals) == DDiv(Dec(balance), Pow10(decimals))

parseEvent(event) ==
    LET baseEvent == [operation |-> event.name,
                      hasLbPair |-> event.data.hasLbPair,
                      tokenXChange |-> 0,
                      tokenYChange |-> 0,
                      hasActiveBin |-> FALSE, activeBin |-> 0,
                      hasOwner |-> FALSE]
    IN  IF event.name \in {EventType("AddLiquidity"), EventType("RemoveLiquidity")}
        THEN [baseEvent EXCEPT !.tokenXChange = event.data.x,
                               !.tokenYChange = event.data.y,
                               !.hasActiveBin = TRUE,
                               !.activeBin = event.data.activeBinId]
        ELSE IF event.name = EventType("ClaimFee")
        THEN [baseEvent EXCEPT !.tokenXChange = event.data.x,
                               !.tokenYChange = event.data.y]
        ELSE IF event.name = EventType("PositionClose")
        THEN baseEvent
        ELSE IF event.name = EventType("PositionCreate")
        THEN [baseEvent EXCEPT !.hasOwner = TRUE]
        ELSE baseEvent

\* `operation in EventType`: a test on the enum's keys
InEventType(operation) == operation \in EventTypeKeys

RECURSIVE processTransaction(_, _)
processTransaction(decoded, blockTime) ==
    IF decoded = <<>> THEN <<>>
    ELSE LET parsedEvent == [blockTime |-> blockTime] @@ parseEvent(Head(decoded))
             rest == processTransaction(Tail(decoded), blockTime)
         IN  IF InEventType(parsedEvent.operation) THEN <<parsedEvent>> \o rest ELSE rest

\* what the decoder yields for the inner instructions of one transaction
Decoded(kind, x, y, bin) ==
    [name |-> DecodedName(kind),
     data |-> [x |-> x, y |-> y, activeBinId |-> bin, hasLbPair |-> kind # "Swap"]]

\* the transactions a position's history is drawn from; the empty one is a
\* transaction that failed (meta.err is not null)
Transactions ==
    {<<>>,
     <<Decoded("PositionCreate", 0, 0, 0)>>,
     <<Decoded("PositionCreate", 0, 0, 0), Decoded("AddLiquidity", 100, 0, 0)>>,
     <<Decoded("ClaimFee", 0, 5, 0)>>,
     <<Decoded("RemoveLiquidity", 100, 0, 0), Decoded("PositionClose", 0, 0, 0)>>,
     <<Decoded("RemoveLiquidity", 5, 2, 1)>>,
     <<Decoded("Swap", 7, 7, 0)>>}

\* block time of the n-th transaction of the history
BlockTimeOf(n) == 1000 + SECONDS_PER_MINUTE * n

\* birdeye.ts ------------------------------------------------------------
availableIntervals ==
    <<<<1, "1m">>, <<3, "3m">>, <<5, "5m">>, <<15, "15m">>, <<30, "30m">>,
      <<60, "1H">>, <<120, "2H">>, <<240, "4H">>, <<360, "6H">>, <<480, "8H">>,
      <<720, "12H">>, <<1440, "1D">>, <<4320, "3D">>, <<10080, "1W">>, <<43200, "1M">>>>

\* Math.ceil(a / b) for b > 0
CeilDiv(a, b) == 0 - ((0 - a) \div b)

\* the policy with Math.floor in place of Math.ceil
determineOptimalTimeIntervalFloor(fromBlockTime, toBlockTime) ==
    LET targetIntervalMinutes ==
            (toBlockTime - fromBlockTime) \div (SECONDS_PER_MINUTE * MAX_DATA_POINTS)
        fits == {k \in 1..Len(availableIntervals) :
                     availableIntervals[k][1] >= targetIntervalMinutes}
    IN  IF fits = {} THEN "1M"
        ELSE availableIntervals[CHOOSE k \in fits : \A j \in fits : k <= j][2]

determineOptimalTimeInterval(fromBlockTime, toBlockTime) ==
    LET targetIntervalMinutes ==
            CeilDiv(toBlockTime - fromBlockTime, SECONDS_PER_MINUTE * MAX_DATA_POINTS)
        fits == {k \in 1..Len(availableIntervals) :
                     availableIntervals[k][1] >= targetIntervalMinutes}
    IN  IF fits = {} THEN "1M"
        ELSE availableIntervals[CHOOSE k \in fits : \A j \in fits : k <= j][2]

\* the (\d+)(\w+) match of an interval's label
IntervalParts(interval) ==
    CASE interval = "1m" -> <<1, "m">> [] interval = "3m" -> <<3, "m">>
      [] interval = "5m" -> <<5, "m">> [] interval = "15m" -> <<15, "m">>
      [] interval = "30m" -> <<30, "m">> [] interval = "1H" -> <<1, "H">>
      [] interval = "2H" -> <<2, "H">> [] interval = "4H" -> <<4, "H">>
      [] interval = "6H" -> <<6, "H">> [] interval = "8H" -> <<8, "H">>
      [] interval = "12H" -> <<12, "H">> [] interval = "1D" -> <<1, "D">>
      [] interval = "3D" -> <<3, "D">> [] interval = "1W" -> <<1, "W">>
      [] interval = "1M" -> <<1, "M">>

convertIntervalToSeconds(interval) ==
    LET numericValue == IntervalParts(interval)[1]
        unit == IntervalParts(interval)[2]
    IN  CASE unit = "m" -> numericValue * SECONDS_PER_MINUTE
          [] unit = "H" -> numericValue * 3600
          [] unit = "D" -> numericValue * 86400
          [] unit = "W" -> numericValue * 7 * 86400
          [] unit = "M" -> numericValue * 30 * 86400

\* the index lookup without its Math.max(0, index)
determineIntervalIndexNoClamp(initBlockTime, interval, targetBlockTime) ==
    LET intervalSeconds == convertIntervalToSeconds(interval)
        timeDifference == targetBlockTime - initBlockTime
    IN  timeDifference \div intervalSeconds

determineIntervalIndex(initBlockTime, interval, targetBlockTime) ==
    LET intervalSeconds == convertIntervalToSeconds(interval)
        timeDifference == targetBlockTime - initBlockTime
        index == timeDifference \div intervalSeconds
    IN  IF index > 0 THEN index ELSE 0

\* the Date-based generation of birdeye.ts: times are Date.getTime() milliseconds
MS_PER_MINUTE == 60000
MS_PER_HOUR == 3600000
MS_PER_DAY == 86400000

convertIntervalToMs(interval) ==
    LET numericValue == IntervalParts(interval)[1]
        unit == IntervalParts(interval)[2]
    IN  CASE unit = "m" -> numericValue * MS_PER_MINUTE
          [] unit = "H" -> numericValue * MS_PER_HOUR
          [] unit = "D" -> numericValue * MS_PER_DAY
          [] unit = "W" -> numericValue * 7 * MS_PER_DAY
          [] unit = "M" -> numericValue * 30 * MS_PER_DAY

determineIntervalIndexMs(fromTime, interval, targetTime) ==
    LET intervalMs == convertIntervalToMs(interval)
        timeDifference == targetTime - fromTime
        index == timeDifference \div intervalMs
    IN  IF index > 0 THEN index ELSE 0

\* dlmm.ts, aggregation ------------------------------------------------------
EmptyBucket(tokenXMint, tokenYMint) == PositionBalanceInfo(<<>>, tokenXMint, tokenYMint)

\* updateBalanceWithEvent of the PositionBalanceInfo generation
updateBalanceWithEvent(balance, event, price) ==
    BucketAdd(balance, BalanceInfo(event.tokenXChange, event.tokenYChange, price,
                                   event.blockTime))

updateBalanceDropsEvent(balance, event, binStep, tokenXDecimals, tokenYDecimals) == balance

updateBalance(balance, event, binStep, tokenXDecimals, tokenYDecimals) ==
    IF ~event.hasActiveBin THEN balance
    ELSE updateBalanceWithEvent(balance, event,
             getPriceFromBinId(event.activeBin, binStep, tokenXDecimals, tokenYDecimals))

RECURSIVE BalanceChange(_, _, _, _, _, _)
BalanceChange(balance, operation, events, binStep, tokenXDecimals, tokenYDecimals) ==
    IF events = <<>> THEN balance
    ELSE BalanceChange(
             IF Head(events).operation = operation
             THEN updateBalance(balance, Head(events), binStep, tokenXDecimals, tokenYDecimals)
             ELSE balance,
             operation, Tail(events), binStep, tokenXDecimals, tokenYDecimals)

calculateBalanceChange(events, binStep, tokenXDecimals, tokenYDecimals, tokenXMint, tokenYMint) ==
    [totalDeposits |-> BalanceChange(EmptyBucket(tokenXMint, tokenYMint),
                                     EventType("AddLiquidity"), events,
                                     binStep, tokenXDecimals, tokenYDecimals),
     totalWithdrawals |-> BalanceChange(EmptyBucket(tokenXMint, tokenYMint),
                                        EventType("RemoveLiquidity"), events,
                                        binStep, tokenXDecimals, tokenYDecimals)]

RECURSIVE SelectOperation(_, _)
SelectOperation(events, operation) ==
    IF events = <<>> THEN <<>>
    ELSE IF Head(events).operation = operation
    THEN <<Head(events)>> \o SelectOperation(Tail(events), operation)
    ELSE SelectOperation(Tail(events), operation)

\* the loop over the claim events when the historical prices arrived
RECURSIVE ClaimedAtHistorical(_, _, _, _, _)
ClaimedAtHistorical(balance, claimFeeEvents, items, fromBlockTime, interval) ==
    IF claimFeeEvents = <<>> THEN balance
    ELSE LET event == Head(claimFeeEvents)
             index == determineIntervalIndex(fromBlockTime, interval, event.blockTime)
             maxAvailableIndex == Len(items) - 1
             priceIndex == IF index < maxAvailableIndex THEN index ELSE maxAvailableIndex
         IN  ClaimedAtHistorical(
                 IF priceIndex >= 0
                 THEN updateBalanceWithEvent(balance, event, Dec(items[priceIndex + 1]))
                 ELSE balance,
                 Tail(claimFeeEvents), items, fromBlockTime, interval)

\* the fallback loop, at the oracle's current price
RECURSIVE ClaimedAtCurrent(_, _, _)
ClaimedAtCurrent(balance, claimFeeEvents, price) ==
    IF claimFeeEvents = <<>> THEN balance
    ELSE ClaimedAtCurrent(updateBalanceWithEvent(balance, Head(claimFeeEvents), Dec(price)),
                          Tail(claimFeeEvents), price)

\* calculateClaimedFees whose catch only logs: no claim is valued when
\* getHistoricalPrice throws
calculateClaimedFeesNoFallback(events, tokenInfoPrice, historicalPrices, tokenXMint, tokenYMint) ==
    LET claimFeeEvents == SelectOperation(events, EventType("ClaimFee"))
        totalClaimedFees == EmptyBucket(tokenXMint, tokenYMint)
    IN  IF claimFeeEvents = <<>> \/ historicalPrices = <<>> THEN totalClaimedFees
        ELSE ClaimedAtHistorical(totalClaimedFees, claimFeeEvents, historicalPrices[1],
                 claimFeeEvents[1].blockTime,
                 determineOptimalTimeInterval(claimFeeEvents[1].blockTime,
                     claimFeeEvents[Len(claimFeeEvents)].blockTime))

\* historicalPrices: <<>> stands for getHistoricalPrice throwing, otherwise
\* <<items>>
calculateClaimedFees(events, tokenInfoPrice, historicalPrices, tokenXMint, tokenYMint) ==
    LET claimFeeEvents == SelectOperation(events, EventType("ClaimFee"))
        totalClaimedFees == EmptyBucket(tokenXMint, tokenYMint)
    IN  IF claimFeeEvents = <<>> THEN totalClaimedFees
        ELSE LET fromBlockTime == claimFeeEvents[1].blockTime
                 toBlockTime == claimFeeEvents[Len(claimFeeEvents)].blockTime
                 optimalTimeInterval == determineOptimalTimeInterval(fromBlockTime, toBlockTime)
             IN  IF historicalPrices = <<>>
                 THEN ClaimedAtCurrent(totalClaimedFees, claimFeeEvents, tokenInfoPrice)
                 ELSE ClaimedAtHistorical(totalClaimedFees, claimFeeEvents, historicalPrices[1],
                                          fromBlockTime, optimalTimeInterval)

\* the lbPair accounts the position may belong to: bin step, active bin and
\* the decimals of its two mints
Pools ==
    {[binStep |-> 0, activeId |-> 0, tokenXDecimals |-> 0, tokenYDecimals |-> 0],
     [binStep |-> 100, activeId |-> 1, tokenXDecimals |-> 1, tokenYDecimals |-> 0]}

\* the mint of a token Y that is not SOL
USDC_MINT == "EPjFWdd5AufqSSqeM2qN1xzybapC8G4wEGGkZwyTDt1v"

\* the mint of token X
TOKEN_X_MINT == "X"

\* how the fetches of processPosition end
FetchOutcomes == {"lbPairThrows", "decimalsThrow", "liveThrows", "liveNotFound", "liveFound"}

\* the answers of the external services to one processPosition
Envs ==
    [outcome : FetchOutcomes,
     pool : Pools,
     tokenYMint : {SOL_MINT, USDC_MINT},
     price : {1, -1},
     historicalPrices : {<<>>, <<<<>>>>, <<<<2>>>>}]

NowBlockTime == BlockTimeOf(MaxTransactions + 1)

\* the position's on-chain amounts when it is still open
LivePositionData == [totalXAmount |-> 20, totalYAmount |-> 0, feeX |-> 0, feeY |-> 3]

getOpenPositionLiveData(found, activeId, binStep, tokenXDecimals, tokenYDecimals) ==
    IF found
    THEN LET currentPrice == getPriceFromBinId(activeId, binStep, tokenXDecimals, tokenYDecimals)
         IN  [totalCurrent |->
                  BalanceInfo(formatDecimalTokenBalance(LivePositionData.totalXAmount, tokenXDecimals),
                              formatDecimalTokenBalance(LivePositionData.totalYAmount, tokenYDecimals),
                              currentPrice, NowBlockTime),
              totalUnclaimedFees |->
                  BalanceInfo(formatDecimalTokenBalance(LivePositionData.feeX, tokenXDecimals),
                              formatDecimalTokenBalance(LivePositionData.feeY, tokenYDecimals),
                              currentPrice, NowBlockTime)]
    ELSE [totalCurrent |-> BalanceInfoZero, totalUnclaimedFees |-> BalanceInfoZero]

\* index of the first event of the operation, 0 when there is none
FindOperation(events, operation) ==
    LET hits == {k \in 1..Len(events) : events[k].operation = operation}
    IN  IF hits = {} THEN 0 ELSE CHOOSE k \in hits : \A j \in hits : k <= j

\* a position none of whose events is taken for its PositionClose
isClosedNever(events) == FALSE

\* positionCloseEvent is found
isClosed(events) == FindOperation(events, EventType("PositionClose")) # 0

\* processPosition reaches the branch of an open position and calls
\* getOpenPositionLiveData
queriesLiveData(events, env) ==
    LET create == FindOperation(events, EventType("PositionCreate"))
    IN  IF create = 0 THEN FALSE
        ELSE IF ~events[create].hasLbPair \/ ~events[create].hasOwner THEN FALSE
        ELSE IF env.outcome \in {"lbPairThrows", "decimalsThrow"} THEN FALSE
        ELSE ~isClosed(events)

\* processPosition: <<>> when the position is not emitted, otherwise the
\* PositionLiquidityData stored under its key
processPosition(events, env) ==
    LET create == FindOperation(events, EventType("PositionCreate"))
        pool == env.pool
        formatted ==
            [k \in 1..Len(events) |->
                [events[k] EXCEPT
                    !.tokenXChange = formatDecimalTokenBalance(@, pool.tokenXDecimals),
                    !.tokenYChange = formatDecimalTokenBalance(@, pool.tokenYDecimals)]]
        closed == isClosed(events)
        live == IF closed
                THEN [totalCurrent |-> BalanceInfoZero, totalUnclaimedFees |-> BalanceInfoZero]
                ELSE getOpenPositionLiveData(env.outcome = "liveFound", pool.activeId,
                         pool.binStep, pool.tokenXDecimals, pool.tokenYDecimals)
        tokenXMint == TOKEN_X_MINT
        tokenYMint == env.tokenYMint
        change == calculateBalanceChange(formatted, pool.binStep,
                                         pool.tokenXDecimals, pool.tokenYDecimals,
                                         tokenXMint, tokenYMint)
    IN  IF create = 0 THEN <<>>
        ELSE IF ~events[create].hasLbPair \/ ~events[create].hasOwner THEN <<>>
        ELSE IF env.outcome \in {"lbPairThrows", "decimalsThrow"} THEN <<>>
        ELSE IF ~closed /\ env.outcome = "liveThrows" THEN <<>>
        ELSE <<[operations |-> formatted,
                tokenXMint |-> tokenXMint,
                tokenYMint |-> tokenYMint,
                startBlockTime |-> events[create].blockTime,
                lastUpdatedBlockTime |-> events[Len(events)].blockTime,
                totalDeposits |-> change.totalDeposits,
                totalWithdrawals |-> change.totalWithdrawals,
                totalUnclaimedFees |->
                    PositionBalanceInfo(<<live.totalUnclaimedFees>>, tokenXMint, tokenYMint),
                totalClaimedFees |-> calculateClaimedFees(formatted, env.price,
                                         env.historicalPrices, tokenXMint, tokenYMint),
                totalCurrent |->
                    PositionBalanceInfo(<<live.totalCurrent>>, tokenXMint, tokenYMint)]>>

\* the backfill of the reference price (token Y in SOL) ---------------------
\* a backfill that overwrites the snapshot's exchange rate
setTokenYSOLPriceAsRate(balance, price) == [balance EXCEPT !.exchangeRate = price]

\* BalanceInfo.setTokenYSOLPrice
setTokenYSOLPrice(balance, price) == [balance EXCEPT !.tokenYSOLPrice = price]

\* Array.from(set).sort((a, b) => a - b)
RECURSIVE SortAscending(_)
SortAscending(S) ==
    IF S = {} THEN <<>>
    ELSE LET least == CHOOSE a \in S : \A b \in S : a <= b
         IN  <<least>> \o SortAscending(S \ {least})

BucketBlockTimes(balanceInfo) ==
    {balanceInfo.balances[k].blockTime : k \in 1..Len(balanceInfo.balances)}

\* the block times getBlockTimesByTokenYMint collects for one position
PositionBlockTimes(position) ==
    ({position.operations[k].blockTime : k \in 1..Len(position.operations)} \ {0})
    \cup BucketBlockTimes(position.totalDeposits)
    \cup BucketBlockTimes(position.totalWithdrawals)
    \cup BucketBlockTimes(position.totalUnclaimedFees)
    \cup BucketBlockTimes(position.totalClaimedFees)
    \cup BucketBlockTimes(position.totalCurrent)

\* getBlockTimesByTokenYMint(positions)[mint]
getBlockTimesByTokenYMint(positions, mint) ==
    SortAscending(UNION {PositionBlockTimes(positions[k]) :
                             k \in {j \in 1..Len(positions) : positions[j].tokenYMint = mint}})

\* the answers of the price services to one backfill: the oracle's price and
\* the two historical series (<<>> when the fetch throws, otherwise <<items>>)
HistoricalPriceItem(unixTime, value) == [unixTime |-> unixTime, value |-> value]

BackfillEnvs ==
    [price : {3},
     yUsd : {<<>>, <<<<>>>>,
             <<<<HistoricalPriceItem(0, 6), HistoricalPriceItem(1, 8)>>>>},
     sol : {<<>>, <<<<HistoricalPriceItem(0, 2)>>>>}]

\* historicalPricesYinSOL: each item of the token's USD series divided by the
\* SOL price of the same unixTime, or left as it is when there is none
historicalPricesYinSOL(yUsdItems, solItems) ==
    [k \in 1..Len(yUsdItems) |->
        LET same == {j \in 1..Len(solItems) : solItems[j].unixTime = yUsdItems[k].unixTime}
        IN  IF same = {} THEN Dec(yUsdItems[k].value)
            ELSE DDiv(Dec(yUsdItems[k].value),
                      Dec(solItems[CHOOSE j \in same : \A i \in same : i <= j].value))]

\* the loop over indexedBlockTimes
RECURSIVE PricesForMint(_, _, _, _)
PricesForMint(blockTimes, series, fromBlockTime, interval) ==
    IF blockTimes = <<>> THEN <<>>
    ELSE LET index == determineIntervalIndex(fromBlockTime, interval, Head(blockTimes))
             maxAvailableIndex == Len(series) - 1
             priceIndex == IF index < maxAvailableIndex THEN index ELSE maxAvailableIndex
             rest == PricesForMint(Tail(blockTimes), series, fromBlockTime, interval)
         IN  IF priceIndex >= 0
             THEN <<[blockTime |-> Head(blockTimes), price |-> series[priceIndex + 1]]>> \o rest
             ELSE rest

\* updateBalancesWithHistoricalPrices({[mint]: blockTimes}, tokenInfo)[mint]:
\* <<>> when the result has no entry for the mint, otherwise <<pricesForMint>>
updateBalancesWithHistoricalPrices(blockTimes, benv) ==
    IF blockTimes = <<>> THEN <<>>
    ELSE LET fromBlockTime == blockTimes[1]
             toBlockTime == blockTimes[Len(blockTimes)]
             optimalTimeInterval == determineOptimalTimeInterval(fromBlockTime, toBlockTime)
         IN  IF benv.yUsd = <<>> \/ benv.sol = <<>>
             THEN <<[k \in 1..Len(blockTimes) |->
                        [blockTime |-> blockTimes[k], price |-> Dec(benv.price)]]>>
             ELSE <<PricesForMint(blockTimes,
                                  historicalPricesYinSOL(benv.yUsd[1], benv.sol[1]),
                                  fromBlockTime, optimalTimeInterval)>>

\* matchingBalances.forEach(b => b.setTokenYSOLPrice(price)) on one bucket
SetMatching(balanceInfo, blockTime, price) ==
    [balanceInfo EXCEPT !.balances =
        [k \in 1..Len(@) |->
            IF @[k].blockTime = blockTime THEN setTokenYSOLPrice(@[k], price) ELSE @[k]]]

\* the loop over pricesByMint[tokenYMintStr] for one matching position
RECURSIVE ApplyPrices(_, _)
ApplyPrices(pos, prices) ==
    IF prices = <<>> THEN pos
    ELSE LET blockTime == Head(prices).blockTime
             price == Head(prices).price
         IN  ApplyPrices(
                 [pos EXCEPT
                     !.totalDeposits = SetMatching(@, blockTime, price),
                     !.totalWithdrawals = SetMatching(@, blockTime, price),
                     !.totalUnclaimedFees = SetMatching(@, blockTime, price),
                     !.totalClaimedFees = SetMatching(@, blockTime, price),
                     !.totalCurrent = SetMatching(@, blockTime, price)],
                 Tail(prices))

\* the filter of getPositionsInfo
isNonSolPosition(position) ==
    position.tokenXMint # SOL_MINT /\ position.tokenYMint # SOL_MINT

nonSolPositions(positionsData) ==
    SelectSeq(positionsData, LAMBDA position : isNonSolPosition(position))

\* pricesByMint[tokenYMintStr] is undefined for some mint, and iterating it throws
processPositionsWithPricesThrows(positions, benv) ==
    \E k \in 1..Len(positions) :
        updateBalancesWithHistoricalPrices(
            getBlockTimesByTokenYMint(positions, positions[k].tokenYMint), benv) = <<>>

\* processPositionsWithPrices applied to the positions of positionsData that
\* pass the filter; the snapshots are updated in place, so positionsData holds
\* the result.  (The services answer alike for every mint.)
processPositionsWithPrices(positionsData, benv) ==
    LET positions == nonSolPositions(positionsData)
    IN  [p \in 1..Len(positionsData) |->
            IF isNonSolPosition(positionsData[p])
            THEN ApplyPrices(positionsData[p],
                     updateBalancesWithHistoricalPrices(
                         getBlockTimesByTokenYMint(positions, positionsData[p].tokenYMint),
                         benv)[1])
            ELSE positionsData[p]]

IdleOthersO == IdleW /\ IdleC /\ IdleM /\ IdleB /\ IdleR /\ IdleL /\ IdleP

InitO ==
    /\ oEnum \in {"Pascal", "Camel"}
    /\ oNames \in {"Pascal", "Camel"}
    /\ oTxs = 0
    /\ oEvents = <<>>
    /\ oEnv = <<>>
    /\ oData = <<>>
    /\ oPc = "fetching"
    /\ oSeen = 0
    /\ oLive = FALSE
    /\ oView = <<>>
    /\ IdleOthersO

\* config.MAX_BATCH_SIZE
MAX_BATCH_SIZE == 2

Reverse(s) == [k \in 1..Len(s) |-> s[Len(s) - k + 1]]

\* allSignatures.slice(startIndex, i + 1) for the transactions that follow the
\* oTxs oldest ones: fetchSignaturesForAddress lists the signatures newest
\* first, and so are the transactions txs; slot counts from the oldest
SignaturesSlice(txs, processed) ==
    [j \in 1..Len(txs) |-> [slot |-> processed + Len(txs) - j + 1, transaction |-> txs[j]]]

\* the batch taken in the order of the slice
batchSignaturesNoReverse(slice) == slice

\* allSignatures.slice(startIndex, i + 1).reverse()
batchSignatures(slice) == Reverse(slice)

\* batchEvents.flat() for the transactions getParsedTransactions returns, in
\* the order of the signatures passed
RECURSIVE batchEventsFlat(_)
batchEventsFlat(transactions) ==
    IF transactions = <<>> THEN <<>>
    ELSE processTransaction(Head(transactions).transaction, BlockTimeOf(Head(transactions).slot))
         \o batchEventsFlat(Tail(transactions))

\* the decoder named the event as one of the five kinds
IsRecognised(event) == \E key \in EventTypeKeys : event.name = DecodedName(key)

\* the number of events of the five kinds among the decoded events of the
\* transactions
RECURSIVE RecognisedIn(_)
RecognisedIn(txs) ==
    IF txs = <<>> THEN 0
    ELSE Cardinality({k \in 1..Len(Head(txs)) : IsRecognised(Head(txs)[k])})
         + RecognisedIn(Tail(txs))

\* one iteration of the loop of fetchEventsForPosition, over the next
\* MAX_BATCH_SIZE older-most signatures not yet processed; a shorter batch is
\* the last one
FetchEventsForPosition(txs) ==
    /\ oPc = "fetching"
    /\ oTxs + Len(txs) <= MaxTransactions
    /\ oTxs' = oTxs + Len(txs)
    /\ oEvents' = oEvents \o batchEventsFlat(batchSignatures(SignaturesSlice(txs, oTxs)))
    /\ oSeen' = oSeen + RecognisedIn(txs)
    /\ oPc' = IF Len(txs) < MAX_BATCH_SIZE THEN "fetched" ELSE "fetching"
    /\ UNCHANGED <<oEnum, oNames, oEnv, oData, oLive, oView, varsW, varsC, varsM, varsB, varsR, varsL, varsP>>

\* the history is complete: processPosition runs
ProcessPosition(env) ==
    /\ oPc \in {"fetching", "fetched"}
    /\ oEnv' = <<env>>
    /\ oData' = processPosition(oEvents, env)
    /\ oLive' = queriesLiveData(oEvents, env)
    /\ oPc' = "processed"
    /\ UNCHANGED <<oEnum, oNames, oTxs, oEvents, oSeen, oView, varsW, varsC, varsM, varsB, varsR, varsL, varsP>>

\* PositionStatus.tsx
getNetProfit(data) ==
    DSub(DAdd(DAdd(DAdd(getTotalValueInTokenY(data.totalCurrent),
                        getTotalValueInTokenY(data.totalUnclaimedFees)),
                   getTotalValueInTokenY(data.totalWithdrawals)),
              getTotalValueInTokenY(data.totalClaimedFees)),
         getTotalValueInTokenY(data.totalDeposits))

\* prettifyNumber: 'N/A' for NaN, '0' for zero, the rounded digits of a finite
\* number (kept as the number), and toLocaleString of an infinity (the infinity
\* sign, written Infinity here) with the
\* billions suffix
prettifyNumber(n) ==
    IF DIsNaN(n) THEN [text |-> "N/A", value |-> n]
    ELSE IF DIsZero(n) THEN [text |-> "0", value |-> n]
    ELSE IF DIsFinite(n) THEN [text |-> "digits", value |-> n]
    ELSE [text |-> IF n.n > 0 THEN "InfinityB" ELSE "-InfinityB", value |-> n]

\* getROI of a position's card
getROI(data) ==
    LET roi == DMul(DSub(DDiv(DAdd(DAdd(DAdd(getTotalValueInTokenY(data.totalCurrent),
                                             getTotalValueInTokenY(data.totalUnclaimedFees)),
                                        getTotalValueInTokenY(data.totalWithdrawals)),
                                   getTotalValueInTokenY(data.totalClaimedFees)),
                              getTotalValueInTokenY(data.totalDeposits)),
                         Dec(1)),
                    Dec(100))
    IN  prettifyNumber(roi)

getSOLValue(balance) == DMul(balance.tokenYSOLPrice, balance.totalValueInTokenY)

RECURSIVE SumSOLValue(_)
SumSOLValue(balances) ==
    IF balances = <<>> THEN Dec(0)
    ELSE DAdd(SumSOLValue(SubSeq(balances, 1, Len(balances) - 1)),
              getSOLValue(balances[Len(balances)]))

getTotalValueIn(bucket, currency) ==
    IF currency = bucket.tokenXMint THEN getTotalValueInTokenX(bucket)
    ELSE IF currency = bucket.tokenYMint THEN getTotalValueInTokenY(bucket)
    ELSE SumSOLValue(bucket.balances)

MetricsZero == [totalInvested |-> Dec(0), currentValue |-> Dec(0), totalWithdrawn |-> Dec(0)]

\* calculateMetrics: the reduce over the positions of positionsData
RECURSIVE calculateMetrics(_, _)
calculateMetrics(positions, currency) ==
    IF positions = <<>> THEN MetricsZero
    ELSE LET accumulator == calculateMetrics(SubSeq(positions, 1, Len(positions) - 1), currency)
             position == positions[Len(positions)]
             convertedDeposits == getTotalValueIn(position.totalDeposits, currency)
             convertedCurrent ==
                 DAdd(getTotalValueIn(position.totalCurrent, currency),
                      getTotalValueIn(position.totalUnclaimedFees, currency))
             convertedWithdrawn ==
                 DAdd(getTotalValueIn(position.totalWithdrawals, currency),
                      getTotalValueIn(position.totalClaimedFees, currency))
         IN  [totalInvested |-> DAdd(accumulator.totalInvested, convertedDeposits),
              currentValue |-> DAdd(accumulator.currentValue, convertedCurrent),
              totalWithdrawn |-> DAdd(accumulator.totalWithdrawn, convertedWithdrawn)]

\* the ROI cell of renderSummary
renderSummaryROI(metrics) ==
    prettifyNumber(DMul(DDiv(DSub(DAdd(metrics.currentValue, metrics.totalWithdrawn),
                                  metrics.totalInvested),
                             metrics.totalInvested),
                        Dec(100)))

\* PositionStatus renders the resolved positionsData: the overall summary in
\* the default currency (SOL) and the position's card
Render ==
    /\ oPc = "resolved"
    /\ oData # <<>>
    /\ oView = <<>>
    /\ oView' = <<[metrics |-> calculateMetrics(oData, SOL_MINT),
                   summaryROI |-> renderSummaryROI(calculateMetrics(oData, SOL_MINT)),
                   ROI |-> getROI(oData[1])]>>
    /\ UNCHANGED <<oEnum, oNames, oTxs, oEvents, oEnv, oData, oPc, oSeen, oLive, varsW, varsC, varsM, varsB, varsR, varsL, varsP>>

\* the positions not paired with SOL get their reference prices, and
\* getPositionsInfo resolves
ProcessPositionsWithPrices(benv) ==
    /\ oPc = "processed"
    /\ IF processPositionsWithPricesThrows(nonSolPositions(oData), benv)
       THEN oPc' = "rejected" /\ UNCHANGED oData
       ELSE oPc' = "resolved" /\ oData' = processPositionsWithPrices(oData, benv)
    /\ UNCHANGED <<oEnum, oNames, oTxs, oEvents, oEnv, oSeen, oLive, oView, varsW, varsC, varsM, varsB, varsR, varsL, varsP>>

NextO ==
    \/ \E size \in 1..MAX_BATCH_SIZE : \E txs \in [1..size -> Transactions] :
           FetchEventsForPosition(txs)
    \/ \E env \in Envs : ProcessPosition(env)
    \/ \E benv \in BackfillEnvs : ProcessPositionsWithPrices(benv)
    \/ Render

SpecO == InitO /\ [][NextO]_vars

\* the operations and amounts of an event list, as <<key, x, y>> triples
OperationsOf(events) ==
    [k \in 1..Len(events) |->
        <<events[k].operation, events[k].tokenXChange, events[k].tokenYChange>>]

\* a snapshot without its reference price
CoreFields(b) ==
    [tokenXBalance |-> b.tokenXBalance, tokenYBalance |-> b.tokenYBalance,
     exchangeRate |-> b.exchangeRate, totalValueInTokenY |-> b.totalValueInTokenY,
     totalValueInTokenX |-> b.totalValueInTokenX, blockTime |-> b.blockTime]

CoreOfBucket(bucket) == [k \in 1..Len(bucket.balances) |-> CoreFields(bucket.balances[k])]

\* the snapshots of every bucket of every position, reference prices left out
CoreOf(positionsData) ==
    [p \in 1..Len(positionsData) |->
        <<CoreOfBucket(positionsData[p].totalDeposits),
          CoreOfBucket(positionsData[p].totalWithdrawals),
          CoreOfBucket(positionsData[p].totalUnclaimedFees),
          CoreOfBucket(positionsData[p].totalClaimedFees),
          CoreOfBucket(positionsData[p].totalCurrent)>>]

\* the round trip: PositionCreate, AddLiquidity(100, 0) at bin 0,
\* ClaimFee(0, 5), RemoveLiquidity(100, 0) at bin 0, PositionClose, in a pool
\* of bin step 0 with equal decimals, with getHistoricalPrice throwing and
\* the oracle's price 1
C5RoundTrip ==
    /\ oPc = "resolved"
    /\ OperationsOf(oEvents) =
           <<<<EventType("PositionCreate"), 0, 0>>,
             <<EventType("AddLiquidity"), 100, 0>>,
             <<EventType("ClaimFee"), 0, 5>>,
             <<EventType("RemoveLiquidity"), 100, 0>>,
             <<EventType("PositionClose"), 0, 0>>>>
    /\ oEvents[2].activeBin = 0
    /\ oEvents[4].activeBin = 0
    /\ oEnv[1].outcome \notin {"lbPairThrows", "decimalsThrow"}
    /\ oEnv[1].pool.binStep = 0
    /\ oEnv[1].pool.tokenXDecimals = oEnv[1].pool.tokenYDecimals
    /\ oEnv[1].historicalPrices = <<>>
    /\ oEnv[1].price = 1

(* C5: for the closed round-trip position, deposits are worth 100 token Y,  *)
(* withdrawals 100, claimed fees 5 (at the fallback price 1), the current   *)
(* balance and the unclaimed fees are zero, and the net profit is 5.        *)
C5_RoundTripScenario ==
    C5RoundTrip =>
        /\ Len(oData) = 1
        /\ getTotalValueInTokenY(oData[1].totalDeposits) = Dec(100)
        /\ getTotalValueInTokenY(oData[1].totalWithdrawals) = Dec(100)
        /\ getTotalValueInTokenY(oData[1].totalClaimedFees) = Dec(5)
        /\ CoreOfBucket(oData[1].totalCurrent) = <<CoreFields(BalanceInfoZero)>>
        /\ CoreOfBucket(oData[1].totalUnclaimedFees) = <<CoreFields(BalanceInfoZero)>>
        /\ getNetProfit(oData[1]) = Dec(5)

C5_Witness ==
    /\ C5RoundTrip
    /\ Len(oData) = 1
    /\ getNetProfit(oData[1]) = Dec(5)
    /\ Len(oData[1].totalClaimedFees.balances) = 1

(* C14: when the rolled-up totalInvested is exactly zero, the ROI shown in   *)
(* the portfolio summary and on each position's card is 0, never NaN or an *)
(* infinity.                                                                *)
C14_ZeroInvestedRoiIsZero ==
    \A v \in 1..Len(oView) :
        /\ DIsZero(oView[v].metrics.totalInvested) => oView[v].summaryROI.text = "0"
        /\ DIsZero(getTotalValueInTokenY(oData[1].totalDeposits)) => oView[v].ROI.text = "0"

\* the event list holds an event the decoder named PositionClose
HasPositionClose(events) ==
    \E k \in 1..Len(events) :
        events[k].operation \in {"PositionClose", CamelCase("PositionClose")}

ZeroTotals(bucket) ==
    /\ DIsZero(getTotalTokenXBalance(bucket))
    /\ DIsZero(getTotalTokenYBalance(bucket))
    /\ DIsZero(getTotalValueInTokenY(bucket))
    /\ DIsZero(getTotalValueInTokenX(bucket))

(* C15: if the position's event list contains a PositionClose event, no    *)
(* live snapshot is queried for it and its totalCurrent and                 *)
(* totalUnclaimedFees buckets total zero in token X, token Y and value; the *)
(* live snapshot is queried only when there is no PositionClose event.      *)
C15_ClosedPositionNoLiveData ==
    oPc = "resolved" =>
        /\ HasPositionClose(oEvents) =>
               /\ ~oLive
               /\ \A d \in 1..Len(oData) :
                      ZeroTotals(oData[d].totalCurrent) /\ ZeroTotals(oData[d].totalUnclaimedFees)
        /\ oLive => ~HasPositionClose(oEvents)

\* a closed position is emitted although the chain would still answer with
\* amounts for it
C15_Witness ==
    /\ oPc = "resolved"
    /\ HasPositionClose(oEvents)
    /\ Len(oData) = 1
    /\ oEnv[1].outcome = "liveFound"
    /\ ~oLive
    /\ ZeroTotals(oData[1].totalCurrent)

\* the positions, in order, of the ClaimFee events of an event list
RECURSIVE ClaimPositions(_, _)
ClaimPositions(events, k) ==
    IF k > Len(events) THEN <<>>
    ELSE IF events[k].operation = EventType("ClaimFee")
         THEN <<k>> \o ClaimPositions(events, k + 1)
         ELSE ClaimPositions(events, k + 1)

(* C17: when the fetch of the historical price series fails, every ClaimFee *)
(* event of the position is valued at the oracle's current price: the       *)
(* totalClaimedFees bucket holds one snapshot per claim event, in order,    *)
(* with the event's amounts and exchangeRate = tokenInfo.price.            *)
C17_FallbackPriceForEveryClaim ==
    (oPc = "resolved" /\ Len(oData) = 1 /\ oEnv[1].historicalPrices = <<>>) =>
        LET claims == ClaimPositions(oData[1].operations, 1)
            balances == oData[1].totalClaimedFees.balances
        IN  /\ Len(balances) = Len(claims)
            /\ \A c \in 1..Len(claims) :
                   /\ c <= Len(balances)
                   /\ balances[c].exchangeRate = Dec(oEnv[1].price)
                   /\ balances[c].tokenXBalance = oData[1].operations[claims[c]].tokenXChange
                   /\ balances[c].tokenYBalance = oData[1].operations[claims[c]].tokenYChange
                   /\ balances[c].blockTime = oData[1].operations[claims[c]].blockTime

\* two claims of one position, both valued at the oracle's price
C17_Witness ==
    /\ oPc = "resolved"
    /\ Len(oData) = 1
    /\ oEnv[1].historicalPrices = <<>>
    /\ Len(ClaimPositions(oData[1].operations, 1)) = 2
    /\ Len(oData[1].totalClaimedFees.balances) = 2
    /\ oData[1].totalClaimedFees.balances[2].exchangeRate = Dec(oEnv[1].price)

(* C18: the backfill pass changes only the tokenYSOLPrice of snapshots: in  *)
(* every bucket of every position the snapshots are the same in number and  *)
(* order after the pass, each with its tokenXBalance, tokenYBalance,        *)
(* exchangeRate, totalValueInTokenY, totalValueInTokenX and blockTime.      *)
C18_BackfillKeepsCoreFields ==
    [][oPc = "processed" => CoreOf(oData') = CoreOf(oData)]_vars

\* the pass has set the reference price of a deposit snapshot
C18_Witness ==
    /\ oPc = "resolved"
    /\ Len(oData) = 1
    /\ Len(oData[1].totalDeposits.balances) >= 1
    /\ oData[1].totalDeposits.balances[1].tokenYSOLPrice = Dec(3)

(* C20: a decoded event of a successful transaction is appended to the      *)
(* position's event list if and only if its kind is one of the five kinds:  *)
(* every event of the list is of one of the five kinds, and the list holds  *)
(* as many events as events of the five kinds were decoded.                 *)
C20_RecognisedKindsOnly ==
    /\ \A k \in 1..Len(oEvents) :
           \E key \in EventTypeKeys : oEvents[k].operation = DecodedName(key)
    /\ Len(oEvents) = oSeen

\* the snapshots of the five buckets of a position
SnapshotsOf(data) ==
    data.totalDeposits.balances \o data.totalWithdrawals.balances
        \o data.totalClaimedFees.balances \o data.totalUnclaimedFees.balances
        \o data.totalCurrent.balances

\* C24: the sentinel -1 the oracle returns on retry exhaustion is never used
\* as a price: no snapshot is built with the exchange rate -1 and no
\* snapshot's reference price is set to -1, the fallbacks of the historical
\* fetches included.
C24_SentinelNeverAPrice ==
    \A d \in 1..Len(oData) :
        LET snapshots == SnapshotsOf(oData[d])
        IN  \A k \in 1..Len(snapshots) :
                /\ snapshots[k].exchangeRate # Dec(-1)
                /\ snapshots[k].tokenYSOLPrice # Dec(-1)

RECURSIVE SumChanges(_, _, _)
SumChanges(events, claims, field) ==
    IF claims = <<>> THEN Dec(0)
    ELSE DAdd(IF field = "X" THEN events[Head(claims)].tokenXChange
              ELSE events[Head(claims)].tokenYChange,
              SumChanges(events, Tail(claims), field))

\* C26: every ClaimFee event of a position contributes exactly one snapshot
\* to totalClaimedFees, whatever the historical series returns: the bucket
\* has one snapshot per claim and its total token X and token Y balances are
\* the sums of the claim events' changes.
C26_EveryClaimCountedOnce ==
    \A d \in 1..Len(oData) :
        LET claims == ClaimPositions(oData[d].operations, 1)
            bucket == oData[d].totalClaimedFees
        IN  /\ Len(bucket.balances) = Len(claims)
            /\ getTotalTokenXBalance(bucket) = SumChanges(oData[d].operations, claims, "X")
            /\ getTotalTokenYBalance(bucket) = SumChanges(oData[d].operations, claims, "Y")

(* C10: in the operations list of an emitted position every RemoveLiquidity *)
(* event has tokenXChange <= 0 and tokenYChange <= 0, and every             *)
(* AddLiquidity or ClaimFee event has both changes >= 0.                    *)
C10_OnChainSignConvention ==
    \A d \in 1..Len(oData) : \A k \in 1..Len(oData[d].operations) :
        LET event == oData[d].operations[k]
        IN  /\ event.operation = EventType("RemoveLiquidity")
                => DLeq(event.tokenXChange, Dec(0)) /\ DLeq(event.tokenYChange, Dec(0))
            /\ event.operation \in {EventType("AddLiquidity"), EventType("ClaimFee")}
                => DLeq(Dec(0), event.tokenXChange) /\ DLeq(Dec(0), event.tokenYChange)

(***************************************************************************)
(* getPositionsInfo over Meteora indexer records (dlmm.ts, second          *)
(* generation, with meteoraApi.ts), for a batch of position keys whose     *)
(* processPosition calls run concurrently under Promise.all.               *)
(***************************************************************************)
NumPositions == 3

Positions == 1..NumPositions

\* BalanceInfo of the generation that values balances in USD
BalanceInfoUsd(tokenXBalance, tokenYBalance, usdValue, blockTime) ==
    [tokenXBalance |-> tokenXBalance, tokenYBalance |-> tokenYBalance,
     usdValue |-> usdValue, blockTime |-> blockTime]

BalanceInfoUsdZero == BalanceInfoUsd(Dec(0), Dec(0), Dec(0), 0)

\* meteoraApi.ts: scale(v, decimals)
scale(v, decimals) == DDiv(Dec(v), Pow10(decimals))

normalizeDeposit(r, tokenXDecimals, tokenYDecimals) ==
    [r EXCEPT !.token_x_amount = scale(@, tokenXDecimals),
              !.token_y_amount = scale(@, tokenYDecimals),
              !.token_x_usd_amount = Dec(@),
              !.token_y_usd_amount = Dec(@)]

normalizeClaimFee(r, tokenXDecimals, tokenYDecimals) ==
    [r EXCEPT !.fee_x_amount = scale(@, tokenXDecimals),
              !.fee_y_amount = scale(@, tokenYDecimals),
              !.fee_x_usd_amount = Dec(@),
              !.fee_y_usd_amount = Dec(@)]

\* the indexer's records of a position, in raw units
DepositRaw(tx, x, y, t) ==
    [tx_id |-> tx, active_bin_id |-> 1, token_x_amount |-> x, token_y_amount |-> y,
     token_x_usd_amount |-> 2 * x, token_y_usd_amount |-> y, onchain_timestamp |-> t]

ClaimFeeRaw(tx, x, y, t) ==
    [tx_id |-> tx, fee_x_amount |-> x, fee_y_amount |-> y,
     fee_x_usd_amount |-> 2 * x, fee_y_usd_amount |-> y, onchain_timestamp |-> t]

DepositsRaw == <<DepositRaw("d1", 100, 4, 10)>>

WithdrawsRaw == <<DepositRaw("w1", 50, 2, 30), DepositRaw("w2", 0, 3, 10)>>

ClaimFeesRaw == <<ClaimFeeRaw("c1", 0, 1, 20)>>

\* how the three endpoint requests of fetchPositionOperations end: all
\* answer, the withdraws endpoint answers with an HTTP error, a request throws
OperationsOutcomes == {"ok", "withdrawsNotOk", "throws"}

MapNormalize(raw, isClaim, tokenXDecimals, tokenYDecimals) ==
    [k \in 1..Len(raw) |->
        IF isClaim THEN normalizeClaimFee(raw[k], tokenXDecimals, tokenYDecimals)
        ELSE normalizeDeposit(raw[k], tokenXDecimals, tokenYDecimals)]

NoOperations == [deposits |-> <<>>, withdrawals |-> <<>>, claimFees |-> <<>>]

fetchPositionOperations(outcome, tokenXDecimals, tokenYDecimals) ==
    IF outcome = "throws" THEN NoOperations
    ELSE [deposits |-> MapNormalize(DepositsRaw, FALSE, tokenXDecimals, tokenYDecimals),
          withdrawals |->
              MapNormalize(IF outcome = "withdrawsNotOk" THEN <<>> ELSE WithdrawsRaw,
                           FALSE, tokenXDecimals, tokenYDecimals),
          claimFees |-> MapNormalize(ClaimFeesRaw, TRUE, tokenXDecimals, tokenYDecimals)]

\* Array.prototype.sort with a comparator that subtracts two times: a
\* stable sort of <<time, element>> pairs
InsertByTime(sorted, e) ==
    LET k == Cardinality({j \in 1..Len(sorted) : sorted[j][1] <= e[1]})
    IN  SubSeq(sorted, 1, k) \o <<e>> \o SubSeq(sorted, k + 1, Len(sorted))

RECURSIVE SortByTime(_)
SortByTime(pairs) ==
    IF pairs = <<>> THEN <<>>
    ELSE InsertByTime(SortByTime(SubSeq(pairs, 1, Len(pairs) - 1)), pairs[Len(pairs)])

\* evts.sort((a, b) => a.blockTime - b.blockTime)
SortByBlockTime(evts) ==
    LET sorted == SortByTime([k \in 1..Len(evts) |-> <<evts[k].blockTime, evts[k]>>])
    IN  [k \in 1..Len(sorted) |-> sorted[k][2]]

\* operations.sort((a, b) => a.onchain_timestamp - b.onchain_timestamp)
SortByOnchainTimestamp(operations) ==
    LET sorted == SortByTime([k \in 1..Len(operations) |->
                                  <<operations[k].onchain_timestamp, operations[k]>>])
    IN  [k \in 1..Len(sorted) |-> sorted[k][2]]

MeteoraEvent(operation, op, x, y, fallbackActiveBin) ==
    [operation |-> operation,
     signature |-> op.tx_id,
     blockTime |-> op.onchain_timestamp,
     tokenXChange |-> x,
     tokenYChange |-> y,
     activeBin |-> IF "active_bin_id" \in DOMAIN op THEN op.active_bin_id
                   ELSE fallbackActiveBin]

buildEventsNoNegation(deposits, withdrawals, claimFees, fallbackActiveBin) ==
    SortByBlockTime(
        [k \in 1..Len(deposits) |->
            MeteoraEvent(EventTypeCamel("AddLiquidity"), deposits[k],
                         deposits[k].token_x_amount, deposits[k].token_y_amount,
                         fallbackActiveBin)]
        \o [k \in 1..Len(withdrawals) |->
            MeteoraEvent(EventTypeCamel("RemoveLiquidity"), withdrawals[k],
                         withdrawals[k].token_x_amount, withdrawals[k].token_y_amount,
                         fallbackActiveBin)]
        \o [k \in 1..Len(claimFees) |->
            MeteoraEvent(EventTypeCamel("ClaimFee"), claimFees[k],
                         claimFees[k].fee_x_amount, claimFees[k].fee_y_amount,
                         fallbackActiveBin)])

buildEventsFromMeteoraOps(deposits, withdrawals, claimFees, fallbackActiveBin) ==
    SortByBlockTime(
        [k \in 1..Len(deposits) |->
            MeteoraEvent(EventTypeCamel("AddLiquidity"), deposits[k],
                         deposits[k].token_x_amount, deposits[k].token_y_amount,
                         fallbackActiveBin)]
        \o [k \in 1..Len(withdrawals) |->
            MeteoraEvent(EventTypeCamel("RemoveLiquidity"), withdrawals[k],
                         DNeg(withdrawals[k].token_x_amount),
                         DNeg(withdrawals[k].token_y_amount),
                         fallbackActiveBin)]
        \o [k \in 1..Len(claimFees) |->
            MeteoraEvent(EventTypeCamel("ClaimFee"), claimFees[k],
                         claimFees[k].fee_x_amount, claimFees[k].fee_y_amount,
                         fallbackActiveBin)])

isClaimFee(op) == "fee_x_amount" \in DOMAIN op \/ "fee_x_usd_amount" \in DOMAIN op

processMeteoraOperations(operations) ==
    LET sorted == SortByOnchainTimestamp(operations)
    IN  PositionBalanceInfo(
            [k \in 1..Len(sorted) |->
                LET op == sorted[k]
                IN  IF isClaimFee(op)
                    THEN BalanceInfoUsd(op.fee_x_amount, op.fee_y_amount,
                                        DAdd(op.fee_x_usd_amount, op.fee_y_usd_amount),
                                        op.onchain_timestamp)
                    ELSE BalanceInfoUsd(op.token_x_amount, op.token_y_amount,
                                        DAdd(op.token_x_usd_amount, op.token_y_usd_amount),
                                        op.onchain_timestamp)],
            "X", "Y")

\* what the lbPair account, the mints and the USD oracle answer when they do
MeteoraPool == [activeId |-> 1, tokenXDecimals |-> 1, tokenYDecimals |-> 0]

UsdPrices == [tokenX |-> 2, tokenY |-> 1]

\* how getCurrentPositionData's fetches end
CurrentOutcomes == {"found", "notFound", "throws"}

getCurrentPositionData(outcome, tokenXDecimals, tokenYDecimals) ==
    IF outcome = "found"
    THEN LET tokenXBalance == formatDecimalTokenBalance(LivePositionData.totalXAmount, tokenXDecimals)
             tokenYBalance == formatDecimalTokenBalance(LivePositionData.totalYAmount, tokenYDecimals)
             unclaimedFeesX == formatDecimalTokenBalance(LivePositionData.feeX, tokenXDecimals)
             unclaimedFeesY == formatDecimalTokenBalance(LivePositionData.feeY, tokenYDecimals)
             tokenXUsdPrice == Dec(UsdPrices.tokenX)
             tokenYUsdPrice == Dec(UsdPrices.tokenY)
             currentUsdValue == DAdd(DMul(tokenXBalance, tokenXUsdPrice),
                                     DMul(tokenYBalance, tokenYUsdPrice))
             unclaimedFeesUsdValue == DAdd(DMul(unclaimedFeesX, tokenXUsdPrice),
                                           DMul(unclaimedFeesY, tokenYUsdPrice))
         IN  [totalCurrent |->
                  BalanceInfoUsd(tokenXBalance, tokenYBalance, currentUsdValue, NowBlockTime),
              totalUnclaimedFees |->
                  BalanceInfoUsd(unclaimedFeesX, unclaimedFeesY, unclaimedFeesUsdValue,
                                 NowBlockTime)]
    \* the catch block falls through to the same return as a position that
    \* is not among the owner's open positions
    ELSE [totalCurrent |-> BalanceInfoUsdZero, totalUnclaimedFees |-> BalanceInfoUsdZero]

AfterThrowRejects == "rejected"

\* the catch block of processPosition: the error is logged and the
\* position's promise fulfils
AfterThrow == "skipped"

IdleOthersM == IdleW /\ IdleC /\ IdleO /\ IdleB /\ IdleR /\ IdleL /\ IdleP

InitM ==
    /\ mPc = [p \in Positions |-> "meta"]
    /\ mFailed = [p \in Positions |-> {}]
    /\ mOps = [p \in Positions |-> NoOperations]
    /\ mData = <<>>
    /\ mBatch = "running"
    /\ IdleOthersM

\* a fetch of position p that throws when it fails, at the await `at`
ThrowingFetch(p, at, ok, next) ==
    /\ mBatch = "running"
    /\ mPc[p] = at
    /\ IF ok
       THEN /\ mPc' = [mPc EXCEPT ![p] = next]
            /\ UNCHANGED mFailed
       ELSE /\ mPc' = [mPc EXCEPT ![p] = AfterThrow]
            /\ mFailed' = [mFailed EXCEPT ![p] = @ \cup {at}]
    /\ UNCHANGED <<mOps, mData, mBatch, varsW, varsC, varsO, varsB, varsR, varsL, varsP>>

\* fetchMeteoraPositionMeta: null on any failure, and processPosition throws
FetchMeta(p, ok) == ThrowingFetch(p, "meta", ok, "lbPair")

\* program.account.lbPair.fetch under fetchWithRetry
FetchLbPair(p, ok) == ThrowingFetch(p, "lbPair", ok, "decimals")

\* the two fetchTokenDecimals under Promise.all
FetchDecimals(p, ok) == ThrowingFetch(p, "decimals", ok, "operations")

FetchOperations(p, outcome) ==
    /\ mBatch = "running"
    /\ mPc[p] = "operations"
    /\ mOps' = [mOps EXCEPT ![p] = fetchPositionOperations(outcome,
                    MeteoraPool.tokenXDecimals, MeteoraPool.tokenYDecimals)]
    /\ mFailed' = [mFailed EXCEPT ![p] = IF outcome = "ok" THEN @ ELSE @ \cup {"operations"}]
    /\ mPc' = [mPc EXCEPT ![p] = "current"]
    /\ UNCHANGED <<mData, mBatch, varsW, varsC, varsO, varsB, varsR, varsL, varsP>>

\* getCurrentPositionData returns, the token metadata resolves, and the
\* position is stored in positionsData
GetCurrentPositionData(p, outcome) ==
    LET ops == mOps[p]
        current == getCurrentPositionData(outcome, MeteoraPool.tokenXDecimals,
                                          MeteoraPool.tokenYDecimals)
        data == [operations |-> buildEventsFromMeteoraOps(ops.deposits, ops.withdrawals,
                                    ops.claimFees, MeteoraPool.activeId),
                 totalDeposits |-> processMeteoraOperations(ops.deposits),
                 totalWithdrawals |-> processMeteoraOperations(ops.withdrawals),
                 totalUnclaimedFees |->
                     PositionBalanceInfo(<<current.totalUnclaimedFees>>, "X", "Y"),
                 totalClaimedFees |-> processMeteoraOperations(ops.claimFees),
                 totalCurrent |-> PositionBalanceInfo(<<current.totalCurrent>>, "X", "Y")]
    IN  /\ mBatch = "running"
        /\ mPc[p] = "current"
        /\ mData' = (p :> data) @@ mData
        /\ mFailed' = [mFailed EXCEPT ![p] = IF outcome = "throws" THEN @ \cup {"current"} ELSE @]
        /\ mPc' = [mPc EXCEPT ![p] = "done"]
        /\ UNCHANGED <<mOps, mBatch, varsW, varsC, varsO, varsB, varsR, varsL, varsP>>

\* Promise.all settles: it rejects with the first rejection, and fulfils
\* when every processPosition has fulfilled
Settle ==
    /\ mBatch = "running"
    /\ \/ \E p \in Positions : mPc[p] = "rejected"
       \/ \A p \in Positions : mPc[p] \in {"done", "skipped"}
    /\ mBatch' = IF \E p \in Positions : mPc[p] = "rejected" THEN "rejected" ELSE "resolved"
    /\ UNCHANGED <<mPc, mFailed, mOps, mData, varsW, varsC, varsO, varsB, varsR, varsL, varsP>>

NextM ==
    \/ \E p \in Positions, ok \in BOOLEAN : FetchMeta(p, ok)
    \/ \E p \in Positions, ok \in BOOLEAN : FetchLbPair(p, ok)
    \/ \E p \in Positions, ok \in BOOLEAN : FetchDecimals(p, ok)
    \/ \E p \in Positions, outcome \in OperationsOutcomes : FetchOperations(p, outcome)
    \/ \E p \in Positions, outcome \in CurrentOutcomes : GetCurrentPositionData(p, outcome)
    \/ Settle

SpecM == InitM /\ [][NextM]_vars

\* the positions of the result map
Emitted == DOMAIN mData

FiveBucketsPopulated(data) ==
    /\ data.totalDeposits.balances # <<>>
    /\ data.totalWithdrawals.balances # <<>>
    /\ data.totalClaimedFees.balances # <<>>
    /\ Len(data.totalCurrent.balances) = 1
    /\ Len(data.totalUnclaimedFees.balances) = 1

\* the lbPair fetch threw for position bad, and every fetch of the other
\* positions succeeded
C3OnlyLbPairFails(bad) ==
    /\ mFailed[bad] = {"lbPair"}
    /\ \A p \in Positions \ {bad} : mFailed[p] = {}

(* C3: when the lbPair fetch throws for one position of a batch and every   *)
(* fetch succeeds for the others, getPositionsInfo does not reject and its  *)
(* result holds exactly the other positions, each with its five buckets     *)
(* populated.                                                               *)
C3_FaultIsolation ==
    /\ mBatch # "rejected"
    /\ \A bad \in Positions :
           (mBatch = "resolved" /\ C3OnlyLbPairFails(bad))
               => /\ Emitted = Positions \ {bad}
                  /\ \A p \in Emitted : FiveBucketsPopulated(mData[p])

C3_Witness ==
    /\ mBatch = "resolved"
    /\ C3OnlyLbPairFails(2)
    /\ Emitted = {1, 3}
    /\ FiveBucketsPopulated(mData[1])

(* C4: a position for which one of the pool-state, decimals, operations or  *)
(* live-snapshot fetches failed is absent from the result; none is emitted  *)
(* with empty or zeroed buckets in place of the failed fetch.               *)
C4_NoPartialData ==
    \A p \in Emitted : mFailed[p] = {}

(* C9: every withdrawal record (x, y) yields a RemoveLiquidity event with   *)
(* tokenXChange = -x and tokenYChange = -y, and the deposit and claim-fee   *)
(* records yield events with their amounts unchanged.                       *)
C9_WithdrawalsNegated ==
    \A p \in Emitted :
        LET HasEvent(operation, tx, x, y) ==
                \E k \in 1..Len(mData[p].operations) :
                    /\ mData[p].operations[k].operation = operation
                    /\ mData[p].operations[k].signature = tx
                    /\ mData[p].operations[k].tokenXChange = x
                    /\ mData[p].operations[k].tokenYChange = y
        IN  /\ \A k \in 1..Len(mOps[p].withdrawals) :
                   LET w == mOps[p].withdrawals[k]
                   IN  HasEvent("removeLiquidity", w.tx_id,
                                DNeg(w.token_x_amount), DNeg(w.token_y_amount))
            /\ \A k \in 1..Len(mOps[p].deposits) :
                   LET d == mOps[p].deposits[k]
                   IN  HasEvent("addLiquidity", d.tx_id, d.token_x_amount, d.token_y_amount)
            /\ \A k \in 1..Len(mOps[p].claimFees) :
                   LET c == mOps[p].claimFees[k]
                   IN  HasEvent("claimFee", c.tx_id, c.fee_x_amount, c.fee_y_amount)
            /\ Len(mData[p].operations) =
                   Len(mOps[p].withdrawals) + Len(mOps[p].deposits) + Len(mOps[p].claimFees)

\* the withdrawal {x: 5, y: 2} came out as a RemoveLiquidity of (-5, -2)
C9_Witness ==
    \E p \in Emitted : \E k \in 1..Len(mData[p].operations) :
        /\ Len(mOps[p].withdrawals) >= 1
        /\ mOps[p].withdrawals[1].token_x_amount = Dec(5)
        /\ mOps[p].withdrawals[1].token_y_amount = Dec(2)
        /\ mData[p].operations[k].operation = "removeLiquidity"
        /\ mData[p].operations[k].tokenXChange = Dec(-5)
        /\ mData[p].operations[k].tokenYChange = Dec(-2)

(***************************************************************************)
(* The resolution-selection policy and the index lookup of birdeye.ts,     *)
(* applied to spans and targets drawn from bounded sets.  Block times are  *)
(* Unix seconds, so a span never exceeds 2^31 seconds and the ladder       *)
(* always has a qualifying interval below its last rung.                   *)
(***************************************************************************)
LadderMinutes == {availableIntervals[k][1] : k \in 1..Len(availableIntervals)}

TimeIntervals == {availableIntervals[k][2] : k \in 1..Len(availableIntervals)}

\* minutes of a ladder label, read off the ladder
MinutesOf(interval) ==
    availableIntervals[CHOOSE k \in 1..Len(availableIntervals) :
                           availableIntervals[k][2] = interval][1]

BFroms == {0, 1000}

\* spans in seconds: short ones, and each rung's largest covered span and one more
BSpans ==
    {0, 1, 59}
    \cup {SECONDS_PER_MINUTE * MAX_DATA_POINTS * m + d :
              m \in LadderMinutes \ {43200}, d \in {0, 1}}

BTargets(from, to) == {500, from, to, from + 3599, from + 3600}

InitB ==
    /\ bFrom \in BFroms
    /\ bTo \in {bFrom + s : s \in BSpans} \cup {500}
    /\ bInterval = ""
    /\ bCall = <<>>
    /\ bPc = "start"
    /\ IdleW /\ IdleC /\ IdleO /\ IdleM /\ IdleR /\ IdleL /\ IdleP

\* the caller selects the resolution for the span
DetermineOptimalTimeInterval ==
    /\ bPc = "start"
    /\ bInterval' = determineOptimalTimeInterval(bFrom, bTo)
    /\ bPc' = "optimal"
    /\ UNCHANGED <<bFrom, bTo, bCall, varsW, varsC, varsO, varsM, varsR, varsL, varsP>>

\* a call of determineIntervalIndex, with the selected interval or with any
\* TimeInterval the caller passes
DetermineIntervalIndex(interval, targetBlockTime) ==
    /\ bPc \in {"start", "optimal"}
    /\ bPc = "optimal" => interval = bInterval
    /\ bCall' = <<[version |-> "seconds", optimal |-> bPc = "optimal",
                   interval |-> interval, target |-> targetBlockTime,
                   index |-> determineIntervalIndex(bFrom, interval, targetBlockTime)]>>
    /\ bPc' = "done"
    /\ UNCHANGED <<bFrom, bTo, bInterval, varsW, varsC, varsO, varsM, varsR, varsL, varsP>>

\* the same call in the Date-based generation (a month of milliseconds
\* exceeds the integers of the model checker, so "1M" is left out)
DetermineIntervalIndexMs(interval, targetTime) ==
    /\ bPc = "start"
    /\ interval # "1M"
    /\ bCall' = <<[version |-> "ms", optimal |-> FALSE,
                   interval |-> interval, target |-> targetTime,
                   index |-> determineIntervalIndexMs(bFrom, interval, targetTime)]>>
    /\ bPc' = "done"
    /\ UNCHANGED <<bFrom, bTo, bInterval, varsW, varsC, varsO, varsM, varsR, varsL, varsP>>

NextB ==
    \/ DetermineOptimalTimeInterval
    \/ \E interval \in TimeIntervals, target \in BTargets(bFrom, bTo) :
           DetermineIntervalIndex(interval, target)
    \/ \E interval \in TimeIntervals, target \in BTargets(bFrom, bTo) :
           DetermineIntervalIndexMs(interval, target)

SpecB == InitB /\ [][NextB]_vars

\* C11: determineIntervalIndex never returns a negative index: it returns 0
\* whenever the target time lies before the from time, and otherwise the floor
\* of (target - from) / intervalDuration, i.e. the index q with
\* q * duration <= target - from < (q + 1) * duration.
C11_IndexClampedFloor ==
    \A c \in 1..Len(bCall) :
        LET call == bCall[c]
            duration == MinutesOf(call.interval)
                            * (IF call.version = "ms" THEN 60000 ELSE 60)
            diff == call.target - bFrom
        IN  /\ call.index >= 0
            /\ call.target < bFrom => call.index = 0
            /\ call.target >= bFrom =>
                   /\ call.index * duration <= diff
                   /\ diff < (call.index + 1) * duration

\* the clamping example: fromTime = 1000, interval '1H', targetTime = 500
C11_Witness ==
    /\ bFrom = 1000
    /\ Len(bCall) = 1
    /\ bCall[1].interval = "1H"
    /\ bCall[1].target = 500
    /\ bCall[1].index = 0

\* m minutes are at least ceil(spanMinutes / 999), for a span in seconds
Qualifies(m, span) ==
    LET whole == span \div (60 * 999)
    IN  whole < m \/ (whole = m /\ span % (60 * 999) = 0)

\* C12 as stated: determineOptimalTimeInterval returns the coarsest interval
\* of the ladder whose minutes are at least ceil(spanMinutes / 999), and 1M
\* when no interval qualifies.
C12_CoarsestQualifying ==
    bInterval # "" =>
        LET fits == {m \in LadderMinutes : Qualifies(m, bTo - bFrom)}
        IN  IF fits = {} THEN bInterval = "1M"
            ELSE MinutesOf(bInterval) = CHOOSE m \in fits : \A n \in fits : n <= m

\* C12 amended: determineOptimalTimeInterval returns the finest interval of
\* the ladder (the first in ladder order) whose minutes are at least
\* ceil(spanMinutes / 999), and 1M when no interval qualifies.
C12_FinestQualifying ==
    bInterval # "" =>
        LET fits == {m \in LadderMinutes : Qualifies(m, bTo - bFrom)}
        IN  IF fits = {} THEN bInterval = "1M"
            ELSE MinutesOf(bInterval) = CHOOSE m \in fits : \A n \in fits : m <= n

\* a span of 999 minutes and one second: 1m no longer qualifies, 3m is selected
C12_Witness ==
    /\ bTo - bFrom = 60 * 999 + 1
    /\ bInterval = "3m"

\* C13: for fromTime <= toTime and the interval selected for the span, the
\* number of interval buckets covering [fromTime, toTime], that is
\* determineIntervalIndex(fromTime, interval, toTime) + 1, does not exceed the
\* maximum point count 999.
C13_BucketsWithinMaxPoints ==
    \A c \in 1..Len(bCall) :
        (bCall[c].optimal /\ bCall[c].target = bTo /\ bFrom <= bTo)
            => bCall[c].index + 1 <= MAX_DATA_POINTS

(***************************************************************************)
(* Either generation of getPositionsInfo: the decoded on-chain events, or  *)
(* the Meteora indexer records.                                            *)
(***************************************************************************)
InitOM == InitO \/ InitM

NextOM ==
    \/ mPc = <<>> /\ NextO
    \/ mPc # <<>> /\ NextM

SpecOM == InitOM /\ [][NextOM]_vars

Ascending(events) ==
    \A k \in 1..(Len(events) - 1) : events[k].blockTime <= events[k + 1].blockTime

MaxRetries == 3

InitialDelays == {1, 3}

\* what one fetch can come to: fetch itself rejects, the status is not 2xx,
\* the body is not JSON, the body is null or lacks the first token, the
\* body lacks the second token, or the body has the usdPrice of each token
\* asked for
Responses ==
    [kind : {"fetchThrows", "notOk", "parseThrows", "noTokenX", "noTokenY"},
     usdX : {0}, usdY : {0}]
    \cup [kind : {"body"}, usdX : {0, 2}, usdY : {0, 4}]

RECURSIVE Pow2(_)
Pow2(k) == IF k = 0 THEN 1 ELSE 2 * Pow2(k - 1)

\* how the body of the loop ends for a response: at the return statement,
\* at a continue, in the catch block, or by throwing out of the function
attemptEndUncaught(fn, response) ==
    CASE response.kind = "notOk" -> "continue"
      [] response.kind = "noTokenX" -> "continue"
      [] response.kind = "body" -> "return"
      [] response.kind = "noTokenY" -> IF fn = "_fetchTokenPrice" THEN "throw" ELSE "return"
      [] OTHER -> "catch"

attemptEnd(fn, response) ==
    CASE response.kind = "fetchThrows" -> "catch"
      [] response.kind = "notOk" -> "continue"
      [] response.kind = "parseThrows" -> "catch"
      [] response.kind = "noTokenX" -> "continue"
      [] response.kind = "noTokenY" ->
            \* tokenYData is undefined: reading its usdPrice throws inside the try
            IF fn = "_fetchTokenPrice" THEN "catch" ELSE "return"
      [] OTHER -> "return"

\* the value of the return statement inside the loop
attemptPrice(fn, response) ==
    IF fn = "_fetchTokenPrice"
    THEN DDiv(Dec(response.usdX), Dec(response.usdY))
    ELSE Dec(response.usdX)

InitR ==
    /\ IdleW /\ IdleC /\ IdleO /\ IdleM /\ IdleB /\ IdleL /\ IdleP
    /\ rFn \in {"_fetchTokenPrice", "_fetchTokenUsdPrice"}
    /\ rMax \in 1..MaxRetries
    /\ rDelay0 \in InitialDelays
    /\ rRetries = 0
    /\ rLog = <<>>
    /\ rResult = <<>>

\* one iteration of the loop and, when it was the last one, the return
\* after the loop
Attempt(response) ==
    LET end == attemptEnd(rFn, response)
        fetched == [op |-> "fetch", retries |-> rRetries, end |-> end,
                    response |-> response, ms |-> 0]
        delayed == [op |-> "delay", retries |-> rRetries, end |-> end,
                    response |-> response,
                    ms |-> rDelay0 * Pow2(rRetries)]
    IN  /\ rResult = <<>>
        /\ rRetries < rMax
        /\ rLog' = IF end = "catch" THEN rLog \o <<fetched, delayed>>
                   ELSE Append(rLog, fetched)
        /\ rRetries' = IF end \in {"return", "throw"} THEN rRetries ELSE rRetries + 1
        /\ rResult' =
              CASE end = "return" ->
                      <<[settled |-> "resolved", price |-> attemptPrice(rFn, response)]>>
                [] end = "throw" -> <<[settled |-> "rejected", price |-> Dec(0)]>>
                [] OTHER ->
                      IF rRetries + 1 < rMax THEN <<>>
                      ELSE <<[settled |-> "resolved", price |-> Dec(-1)]>>
        /\ UNCHANGED <<rFn, rMax, rDelay0, varsW, varsC, varsO, varsM, varsB, varsL, varsP>>

NextR == \E response \in Responses : Attempt(response)

SpecR == InitR /\ [][NextR]_vars

Fetches == {k \in 1..Len(rLog) : rLog[k].op = "fetch"}

\* C21: _fetchTokenPrice and _fetchTokenUsdPrice never throw to the caller;
\* when an attempt reaches the return statement the call resolves with what
\* that attempt returned and it was the last attempt, and otherwise the call
\* resolves, after maxRetries failed attempts, with the sentinel -1.
C21_SentinelInsteadOfThrow ==
    /\ \A k \in Fetches : rLog[k].end = "return" =>
          /\ rResult # <<>>
          /\ \A j \in Fetches : j <= k
    /\ rResult # <<>> =>
          /\ rResult[1].settled = "resolved"
          /\ \/ \E k \in Fetches :
                   /\ rLog[k].end = "return"
                   /\ rResult[1].price = attemptPrice(rFn, rLog[k].response)
             \/ /\ rResult[1].price = Dec(-1)
                /\ Cardinality(Fetches) = rMax
    /\ rResult = <<>> => Cardinality(Fetches) < rMax

\* every attempt failed, one of them on a body without the second token
C21_Witness ==
    /\ rResult = <<[settled |-> "resolved", price |-> Dec(-1)]>>
    /\ rMax = MaxRetries
    /\ rFn = "_fetchTokenPrice"
    /\ \E k \in Fetches : rLog[k].end = "catch"
    /\ \E k \in Fetches : rLog[k].end = "continue"

\* C22: every failed attempt that is followed by another attempt is
\* separated from it by a delay of initialDelay * 2^attempt, and there are
\* never more than maxRetries attempts.
C22_BackoffBetweenAttempts ==
    /\ Cardinality(Fetches) <= rMax
    /\ \A k \in Fetches : \A j \in Fetches :
          (k < j /\ rLog[j].retries = rLog[k].retries + 1) =>
              /\ j = k + 2
              /\ rLog[k + 1].op = "delay"
              /\ rLog[k + 1].ms = rDelay0 * Pow2(rLog[k].retries)

(***************************************************************************)
(* fetchWithRetry (rateLimitedFetch.ts).  The call is followed through the *)
(* variables of the retry loop; an attempt is one iteration of its for     *)
(* loop.  The await of rateLimiter.limit() at the head of the try block    *)
(* resolves without a value and cannot reject (the promise of limit has no *)
(* reject path), so it does not change where an iteration ends.            *)
(***************************************************************************)
\* what fetchFunc can come to: a value, or an error
FetchFuncOutcomes ==
    [kind : {"ok"}, value : {"v1", "v2"}] \cup [kind : {"error"}, value : {"e1", "e2"}]

\* 500 * (1 + Math.random()), at the ends of its range
Jitters == {500, 999}

isLastRetryNever(retries, maxRetries) == FALSE

\* retries === maxRetries - 1
isLastRetry(retries, maxRetries) == retries = maxRetries - 1

InitF ==
    /\ IdleW /\ IdleC /\ IdleO /\ IdleM /\ IdleB /\ IdleL /\ IdleP
    /\ rFn = "fetchWithRetry"
    /\ rMax \in 1..MaxRetries
    /\ rDelay0 \in InitialDelays
    /\ rRetries = 0
    /\ rLog = <<>>
    /\ rResult = <<>>

\* one iteration of the loop and, when the loop ends with it, the throw
\* after the loop
AttemptF(outcome, jitter) ==
    LET called == [op |-> "call", retries |-> rRetries, response |-> outcome, ms |-> 0]
        delayed == [op |-> "delay", retries |-> rRetries, response |-> outcome,
                    ms |-> rDelay0 * Pow2(rRetries) + jitter]
    IN  /\ rResult = <<>>
        /\ rRetries < rMax
        /\ IF outcome.kind = "ok"
           THEN /\ rLog' = Append(rLog, called)
                /\ rResult' = <<[settled |-> "resolved", value |-> outcome.value]>>
                /\ UNCHANGED rRetries
           ELSE IF isLastRetry(rRetries, rMax)
           THEN /\ rLog' = Append(rLog, called)
                /\ rResult' = <<[settled |-> "rejected", value |-> outcome.value]>>
                /\ UNCHANGED rRetries
           ELSE /\ rLog' = rLog \o <<called, delayed>>
                /\ rRetries' = rRetries + 1
                /\ rResult' = IF rRetries + 1 < rMax THEN <<>>
                              ELSE <<[settled |-> "rejected", value |-> "Max retries reached"]>>
        /\ UNCHANGED <<rFn, rMax, rDelay0, varsW, varsC, varsO, varsM, varsB, varsL, varsP>>

NextF == \E outcome \in FetchFuncOutcomes, jitter \in Jitters : AttemptF(outcome, jitter)

SpecF == InitF /\ [][NextF]_vars

\* fetchFunc settles and the timer of delay fires
FairSpecF == SpecF /\ WF_vars(NextF)

Invocations == {k \in 1..Len(rLog) : rLog[k].op = "call"}

C27Safe ==
    /\ Cardinality(Invocations) <= rMax
    /\ \A k \in Invocations : rLog[k].response.kind = "ok" =>
          /\ rResult = <<[settled |-> "resolved", value |-> rLog[k].response.value]>>
          /\ k = Len(rLog)
    /\ rResult # <<>> =>
          /\ rLog[Len(rLog)].op = "call"
          /\ rLog[Len(rLog)].response.kind = "error" =>
                /\ Cardinality(Invocations) = rMax
                /\ rResult = <<[settled |-> "rejected", value |-> rLog[Len(rLog)].response.value]>>
    /\ rResult = <<>> => \A k \in Invocations : rLog[k].response.kind = "error"

\* C27: fetchWithRetry(f, {maxRetries: n}) with n >= 1 terminates, invokes f
\* at most n times, returns the result of the first successful invocation
\* without invoking f again, and when all n invocations fail rejects with
\* the error of the n-th invocation.
C27_RetryThenRethrow ==
    /\ []C27Safe
    /\ <>(rResult # <<>>)

\* three invocations failed, with different errors, and the last one's error
\* is the rejection
C27_Witness ==
    /\ rMax = 3
    /\ Cardinality(Invocations) = 3
    /\ rLog[1].response.value = "e2"
    /\ rResult = <<[settled |-> "rejected", value |-> "e1"]>>

(***************************************************************************)
(* RateLimiter (rateLimitedFetch.ts).  The code runs on one event loop: a  *)
(* step is the code between two awaits.  limit() runs processQueue up to   *)
(* its first await delay, or to its end, before it returns.                *)
(***************************************************************************)
MaxLimitCalls == 3

\* new RateLimiter(10)
CALLS_PER_SECOND == 10

\* this.callInterval = 1000 / callsPerSecond
callInterval == 1000 \div CALLS_PER_SECOND

\* by how much Date.now() moves between two steps
TickSteps == {30, 50, 100}

HorizonL == MaxLimitCalls * callInterval

startsLoopAlways(isProcessing) == TRUE

\* if (!this.isProcessing) this.processQueue()
startsLoop(isProcessing) == ~isProcessing

\* the while loop of processQueue from its test on, up to the next await
\* delay (wake is the time the timer is set to) or to the end (wake = -1)
RECURSIVE processQueue(_, _, _, _)
processQueue(queue, lastCallTime, resolved, time) ==
    IF queue = <<>>
    THEN [queue |-> queue, lastCallTime |-> lastCallTime, resolved |-> resolved,
          wake |-> -1, isProcessing |-> FALSE]
    ELSE LET timeToWait == IF lastCallTime + callInterval - time > 0
                           THEN lastCallTime + callInterval - time ELSE 0
         IN  IF timeToWait > 0
             THEN [queue |-> queue, lastCallTime |-> lastCallTime, resolved |-> resolved,
                   wake |-> time + timeToWait, isProcessing |-> TRUE]
             ELSE processQueue(Tail(queue), time, Append(resolved, Head(queue)), time)

InitL ==
    /\ IdleW /\ IdleC /\ IdleO /\ IdleM /\ IdleB /\ IdleR /\ IdleP
    /\ lNow = 0
    /\ lQueue = <<>>
    /\ lIsProcessing = FALSE
    /\ lLastCallTime = 0
    /\ lLoops = <<>>
    /\ lCalls = 0
    /\ lResolved = <<>>

\* a call of limit(): the executor of its promise
Limit ==
    LET call == lCalls + 1
        queue == Append(lQueue, call)
        run == processQueue(queue, lLastCallTime, lResolved, lNow)
    IN  /\ lCalls < MaxLimitCalls
        /\ lCalls' = call
        /\ IF startsLoop(lIsProcessing)
           THEN /\ lQueue' = run.queue
                /\ lLastCallTime' = run.lastCallTime
                /\ lResolved' = run.resolved
                /\ lIsProcessing' = run.isProcessing
                /\ lLoops' = IF run.wake = -1 THEN lLoops ELSE Append(lLoops, run.wake)
           ELSE /\ lQueue' = queue
                /\ UNCHANGED <<lLastCallTime, lResolved, lIsProcessing, lLoops>>
        /\ UNCHANGED <<lNow, varsW, varsC, varsO, varsM, varsB, varsR, varsP>>

\* the timer of an await delay fires: processQueue goes on from there
Wake(i) ==
    LET shifted == IF lQueue = <<>> THEN lQueue ELSE Tail(lQueue)
        resolved == IF lQueue = <<>> THEN lResolved ELSE Append(lResolved, Head(lQueue))
        run == processQueue(shifted, lNow, resolved, lNow)
        others == SubSeq(lLoops, 1, i - 1) \o SubSeq(lLoops, i + 1, Len(lLoops))
    IN  /\ i \in 1..Len(lLoops)
        /\ lLoops[i] <= lNow
        /\ lQueue' = run.queue
        /\ lLastCallTime' = run.lastCallTime
        /\ lResolved' = run.resolved
        /\ lIsProcessing' = run.isProcessing
        /\ lLoops' = IF run.wake = -1 THEN others ELSE Append(others, run.wake)
        /\ UNCHANGED <<lNow, lCalls, varsW, varsC, varsO, varsM, varsB, varsR, varsP>>

\* time passes; the clock is followed to the horizon and to every timer set
TickL(step) ==
    /\ lNow < HorizonL \/ \E i \in 1..Len(lLoops) : lNow < lLoops[i]
    /\ lNow' = lNow + step
    /\ UNCHANGED <<lQueue, lIsProcessing, lLastCallTime, lLoops, lCalls, lResolved,
                   varsW, varsC, varsO, varsM, varsB, varsR, varsP>>

NextL ==
    \/ Limit
    \/ \E i \in 1..MaxLimitCalls : Wake(i)
    \/ \E step \in TickSteps : TickL(step)

SpecL == InitL /\ [][NextL]_vars

\* time passes and a timer that is due fires
FairSpecL ==
    /\ SpecL
    /\ WF_vars(\E i \in 1..MaxLimitCalls : Wake(i))
    /\ WF_vars(\E step \in TickSteps : TickL(step))

C29Safe ==
    /\ Len(lLoops) <= 1
    /\ lIsProcessing <=> Len(lLoops) = 1
    /\ lQueue # <<>> => lIsProcessing
    /\ \A k \in 1..Len(lResolved) : lResolved[k] = k
    /\ \A k \in 1..Len(lQueue) : lQueue[k] = Len(lResolved) + k

LimitCalled(c) == lCalls >= c

LimitResolved(c) == \E k \in 1..Len(lResolved) : lResolved[k] = c

\* C29: RateLimiter strands no caller: whenever the queue is non-empty a
\* single processQueue loop is active, and every call of limit() is
\* eventually resolved, in the order of arrival.
C29_NoCallerStranded ==
    /\ []C29Safe
    /\ \A c \in 1..MaxLimitCalls : LimitCalled(c) ~> LimitResolved(c)

\* two callers wait in the queue behind one sleeping loop
C29_Witness ==
    /\ Len(lQueue) = 2
    /\ Len(lLoops) = 1
    /\ lResolved = <<1>>

(***************************************************************************)
(* The PositionStatus component: its state, fetchTransactions, and which   *)
(* of its three views the render function returns.                         *)
(***************************************************************************)
MaxFetches == 4

\* the position keys getPositionsInfo can resolve with
PositionKeys == {"p1", "p2", "p3"}

FETCH_ERROR == "Failed to fetch transactions. Please try again later."

\* the return statements of the component, in their order
view(isLoading, positionsData, error) ==
    IF isLoading \/ positionsData = {} THEN "spinner"
    ELSE IF error # "" THEN "error"
    ELSE "positions"

InitP ==
    /\ IdleW /\ IdleC /\ IdleO /\ IdleM /\ IdleB /\ IdleR /\ IdleL
    /\ pIsLoading = TRUE
    /\ pError = ""
    /\ pPositionsData = {}
    /\ pInFlight = 0
    /\ pFetches = 0

\* fetchTransactions up to its await, run by the effect on mount and when
\* positionPubKeys changes
FetchTransactions ==
    /\ pFetches < MaxFetches
    /\ pFetches' = pFetches + 1
    /\ pIsLoading' = TRUE
    /\ pError' = ""
    /\ pInFlight' = pInFlight + 1
    /\ UNCHANGED <<pPositionsData, varsW, varsC, varsO, varsM, varsB, varsR, varsL>>

\* the Retry button, which only the error view has
Retry ==
    /\ view(pIsLoading, pPositionsData, pError) = "error"
    /\ pFetches < MaxFetches
    /\ pFetches' = pFetches + 1
    /\ pIsLoading' = TRUE
    /\ pError' = ""
    /\ pInFlight' = pInFlight + 1
    /\ UNCHANGED <<pPositionsData, varsW, varsC, varsO, varsM, varsB, varsR, varsL>>

\* getPositionsInfo resolves: the rest of the try block and the finally
Resolved(newPositionsData) ==
    /\ pInFlight > 0
    /\ pInFlight' = pInFlight - 1
    /\ pPositionsData' = newPositionsData
    /\ pIsLoading' = FALSE
    /\ UNCHANGED <<pError, pFetches, varsW, varsC, varsO, varsM, varsB, varsR, varsL>>

\* getPositionsInfo rejects: the catch block and the finally
Rejected ==
    /\ pInFlight > 0
    /\ pInFlight' = pInFlight - 1
    /\ pError' = FETCH_ERROR
    /\ pIsLoading' = FALSE
    /\ UNCHANGED <<pPositionsData, pFetches, varsW, varsC, varsO, varsM, varsB, varsR, varsL>>

NextP ==
    \/ FetchTransactions
    \/ Retry
    \/ \E newPositionsData \in SUBSET PositionKeys : Resolved(newPositionsData)
    \/ Rejected

SpecP == InitP /\ [][NextP]_vars

\* C25: when the whole batch fetch fails (getPositionsInfo rejects), the
\* component renders the error state with its Retry control rather than
\* staying on the loading spinner: once the failed fetch is through, with
\* the error set and no longer loading, the view is the error view.
C25_ErrorViewAfterFailure ==
    (~pIsLoading /\ pError # "") => view(pIsLoading, pPositionsData, pError) = "error"

====
